---- MODULE Spec2Model ----
(***************************************************************************)
(* Model of the script expansion engine of cozmo_controller.py:            *)
(* load_script_file, ScriptInterpreter.preprocess and the handlers it      *)
(* dispatches to.                                                          *)
(*                                                                         *)
(* Representation.  A script line is the sequence of its whitespace        *)
(* separated tokens (so str.strip() and the \s+ of the regular expressions *)
(* are built in); a blank line is << >>.  A token is a string.  A line of  *)
(* the output stream and a value of the variable store are token sequences *)
(* too: the Python string is the tokens joined by single blanks, and the   *)
(* empty string is <<"">>.  The variable store holds str(value): every     *)
(* read of the store goes through str() (source line 1914).                *)
(*                                                                         *)
(* The recursion of _expand_block through its handlers is the variable     *)
(* stack: one frame per activation of _expand_block ("block") and of       *)
(* _handle_for, _handle_while, _handle_if and _handle_call, innermost      *)
(* last.  A frame holds the locals of its activation.                      *)
(***************************************************************************)
EXTENDS Integers, Sequences, FiniteSets, TLC

VARIABLES pc, fs, lines, stack, variables, subroutines, result, diag,
          commands, executed, rc, cli, connected, bg_threads, alive, threads, joining,
          timed_out, attempt

\* the state of load_script_file and of the interpreter
loadvars == <<fs, lines, stack, variables, subroutines, result, diag>>

\* the state of main and of its CozmoController
mainvars == <<commands, executed, rc, cli, connected, bg_threads, alive, threads, joining,
              timed_out, attempt>>

vars == <<pc, fs, lines, stack, variables, subroutines, result, diag,
          commands, executed, rc, cli, connected, bg_threads, alive, threads, joining,
          timed_out, attempt>>

(***************************************************************************)
(* Bounds of the model and constants of the program.                       *)
(***************************************************************************)
MaxNum == 20

max_iterations == 1000

MaxDepth == 50

(***************************************************************************)
(* Tokens.                                                                 *)
(***************************************************************************)
Nums == (0 - MaxNum)..MaxNum

NumStrings == {ToString(n) : n \in Nums}

\* int(s) for the decimal numerals of the model
NumOf == [s \in NumStrings |-> CHOOSE n \in Nums : ToString(n) = s]

\* \d+ : an unsigned decimal numeral
IsDigits(t) == t \in NumStrings /\ NumOf[t] >= 0

\* names a script may give a variable or a subroutine (they match \w+)
Names == {"x", "y", "n", "k", "1", "2", "3", "f", "g", "r", "greet", "COUNT"}

\* other tokens that match \w+
PlainWords == {"say", "Hello", "Yes", "No", "Round", "hi", "a", "b", "c",
               "in", "step", "for", "while", "if", "set", "call", "def",
               "include", "else", "endif", "endfor", "endwhile", "enddef",
               "IN", "FOR", "SET", "ENDFOR", "Say"}

IsWord(t) == t \in Names \/ t \in PlainWords \/ IsDigits(t)

\* str.lower() on a token
Lower(t) ==
    CASE t = "FOR" -> "for"
      [] t = "IN" -> "in"
      [] t = "SET" -> "set"
      [] t = "ENDFOR" -> "endfor"
      [] t = "Say" -> "say"
      [] t = "Hello" -> "hello"
      [] t = "Yes" -> "yes"
      [] t = "No" -> "no"
      [] t = "Round" -> "round"
      [] t = "COUNT" -> "count"
      [] OTHER -> t

PlainRef(n) == "$" \o n

BracedRef(n) == "${" \o n \o "}"

IsPlainRef(t) == \E n \in Names : t = PlainRef(n)

IsBracedRef(t) == \E n \in Names : t = BracedRef(n)

RefName(t) == CHOOSE n \in Names : t = PlainRef(n) \/ t = BracedRef(n)

RECURSIVE Flatten(_)
Flatten(ss) == IF ss = << >> THEN << >> ELSE Head(ss) \o Flatten(Tail(ss))

\* the empty Python string
EmptyStr == <<"">>

IsEmptyStr(v) == v = << >> \/ v = EmptyStr

(***************************************************************************)
(* _expand_variables: two passes of re.sub, ${name} first and then $name,  *)
(* the second over the text the first one produced.                        *)
(***************************************************************************)
Lookup(store, n) == IF n \in DOMAIN store THEN store[n] ELSE EmptyStr

SubstBraced(store, line) ==
    Flatten([j \in 1..Len(line) |->
        IF IsBracedRef(line[j]) THEN Lookup(store, RefName(line[j]))
        ELSE <<line[j]>>])

SubstPlain(store, line) ==
    Flatten([j \in 1..Len(line) |->
        IF IsPlainRef(line[j]) THEN Lookup(store, RefName(line[j]))
        ELSE <<line[j]>>])

expand_variables(store, line) == SubstPlain(store, SubstBraced(store, line))

(***************************************************************************)
(* _evaluate_expression.  A Python value is modelled by the record         *)
(* [num, n, s]: num says that it is an int (the arithmetic of the model is *)
(* + - * % over integers, so no float arises), n is the number and s is    *)
(* str(value).                                                             *)
(***************************************************************************)
MaxRange == 4

RangeTok(a, b) == ToString(a) \o ".." \o ToString(b)

\* the numbers a range of the model starts and ends at
RangeEnds == 0..MaxRange \cup {max_iterations}

IsRangeTok(t) == \E a, b \in RangeEnds : t = RangeTok(a, b)

RangeLo(t) == CHOOSE a \in RangeEnds : \E b \in RangeEnds : t = RangeTok(a, b)

RangeHi(t) == CHOOSE b \in RangeEnds : \E a \in RangeEnds : t = RangeTok(a, b)

ArithOps == {"+", "-", "*", "%"}

\* the characters of t are all in [\d\s\+\-\*\/\%\(\)\.]
IsArithTok(t) == t = "" \/ t \in NumStrings \/ t \in ArithOps \/ IsRangeTok(t)

NumVal(k) == [num |-> TRUE, n |-> k, s |-> <<ToString(k)>>]

StrVal(toks) == [num |-> FALSE, n |-> 0, s |-> toks]

\* Python's a % b for b # 0: the result has the sign of b
PyMod(a, b) == IF b > 0 THEN a % b ELSE 0 - ((0 - a) % (0 - b))

\* eval() of an expression whose characters passed the regular expression:
\* a numeral, a signed numeral, or numeral op numeral; anything else the
\* model's vocabulary can build is a SyntaxError, which line 1903 swallows.
EvalArith(toks) ==
    LET ne == SelectSeq(toks, LAMBDA t : t # "")
        isn(t) == t \in NumStrings
    IN  CASE Len(ne) = 1 /\ isn(ne[1]) -> NumVal(NumOf[ne[1]])
          [] Len(ne) = 2 /\ ne[1] = "+" /\ isn(ne[2]) -> NumVal(NumOf[ne[2]])
          [] Len(ne) = 2 /\ ne[1] = "-" /\ isn(ne[2]) -> NumVal(0 - NumOf[ne[2]])
          [] Len(ne) = 3 /\ isn(ne[1]) /\ isn(ne[3]) /\ ne[2] \in ArithOps ->
                LET a == NumOf[ne[1]]
                    b == NumOf[ne[3]]
                IN  CASE ne[2] = "+" -> NumVal(a + b)
                      [] ne[2] = "-" -> NumVal(a - b)
                      [] ne[2] = "*" -> NumVal(a * b)
                      [] ne[2] = "%" /\ b # 0 -> NumVal(PyMod(a, b))
                      [] OTHER -> StrVal(toks)
          [] OTHER -> StrVal(toks)

evaluate_expression(store, expr) ==
    LET e == expand_variables(store, expr)
    IN  IF ~IsEmptyStr(e) /\ \A j \in 1..Len(e) : IsArithTok(e[j])
        THEN EvalArith(e)
        ELSE StrVal(e)

(***************************************************************************)
(* _evaluate_condition.  The result is [b, exc]: exc says that the         *)
(* comparison raised (TypeError: an ordering of a number and a string).    *)
(***************************************************************************)
\* the one-character operators tried first
operators_short_first == <<">", "<", "==", "!=", ">=", "<=">>

operators == <<"==", "!=", ">=", "<=", ">", "<">>

\* str.strip() of a string given as tokens
RECURSIVE LStrip(_)
LStrip(toks) ==
    IF toks # << >> /\ Head(toks) = "" THEN LStrip(Tail(toks)) ELSE toks

RECURSIVE RStrip(_)
RStrip(toks) ==
    IF toks # << >> /\ toks[Len(toks)] = ""
    THEN RStrip(SubSeq(toks, 1, Len(toks) - 1)) ELSE toks

Strip(toks) == LET t == RStrip(LStrip(toks)) IN IF t = << >> THEN EmptyStr ELSE t

\* op in condition: ">" also occurs inside ">=" and "<" inside "<="
Occurs(op, t) == t = op \/ (op = ">" /\ t = ">=") \/ (op = "<" /\ t = "<=")

HasOp(op, cond) == \E j \in 1..Len(cond) : Occurs(op, cond[j])

FirstAt(op, cond) == CHOOSE j \in 1..Len(cond) :
    Occurs(op, cond[j]) /\ \A m \in 1..(j - 1) : ~Occurs(op, cond[m])

\* the tokens of the model that hold a '.'
FileNames == {"main.txt", "a.txt", "b.txt", "c.txt", "missing.txt"}

HasDot(toks) == \E j \in 1..Len(toks) : IsRangeTok(toks[j]) \/ toks[j] \in FileNames

\* str(float(n)) of an integral float
FloatStr(k) == <<ToString(k) \o ".0">>

\* the words of the model in the order of Python's string comparison
SortedWords == <<"", "$x", "$y", "COUNT", "Hello", "No", "Round", "Yes",
                 "a", "b", "c", "hi", "k", "n", "say", "x", "y">>

WordRank(t) == CHOOSE j \in 1..Len(SortedWords) : SortedWords[j] = t

RECURSIVE StrLess(_, _)
StrLess(u, v) ==
    CASE v = << >> -> FALSE
      [] u = << >> -> TRUE
      [] Head(u) = Head(v) -> StrLess(Tail(u), Tail(v))
      [] OTHER -> WordRank(Head(u)) < WordRank(Head(v))

Compare(op, l, r) ==
    LET ldot == ~l.num /\ HasDot(l.s)
        rdot == ~r.num /\ HasDot(r.s)
        \* lines 2141-2145: float() of a string with a '.' raises and both
        \* sides become str(); the left side may already be a float then
        L == CASE ldot -> StrVal(l.s)
               [] rdot -> IF l.num THEN StrVal(FloatStr(l.n)) ELSE StrVal(l.s)
               [] OTHER -> l
        R == IF ldot \/ rdot THEN StrVal(r.s) ELSE r
        lt == IF L.num THEN L.n < R.n ELSE StrLess(L.s, R.s)
        eq == IF L.num # R.num THEN FALSE
              ELSE IF L.num THEN L.n = R.n ELSE L.s = R.s
    IN  CASE op = "==" -> [b |-> eq, exc |-> FALSE]
          [] op = "!=" -> [b |-> ~eq, exc |-> FALSE]
          [] L.num # R.num -> [b |-> FALSE, exc |-> TRUE]
          [] op = ">=" -> [b |-> ~lt, exc |-> FALSE]
          [] op = "<=" -> [b |-> lt \/ eq, exc |-> FALSE]
          [] op = ">" -> [b |-> ~lt /\ ~eq, exc |-> FALSE]
          [] OTHER -> [b |-> lt, exc |-> FALSE]

Falsy == {"false", "0", "no", "off"}

evaluate_condition(store, condition) ==
    LET c == expand_variables(store, condition)
        found == {k \in 1..Len(operators) : HasOp(operators[k], c)}
    IN  IF found # {}
        THEN LET k == CHOOSE m \in found : \A m2 \in found : m <= m2
                 op == operators[k]
                 at == FirstAt(op, c)
                 \* the split is at op itself: inside ">=" only when op is ">=",
                 \* which comes first in the list
                 left == evaluate_expression(store, Strip(SubSeq(c, 1, at - 1)))
                 right == evaluate_expression(store, Strip(SubSeq(c, at + 1, Len(c))))
             IN  Compare(op, left, right)
        ELSE [b |-> ~IsEmptyStr(c) /\ ~(Len(c) = 1 /\ Lower(c[1]) \in Falsy),
              exc |-> FALSE]

(***************************************************************************)
(* Lines.                                                                  *)
(***************************************************************************)
\* lower_line.startswith(kw + ' ') on a stripped line
StartsWith(line, kw) == Len(line) >= 2 /\ Lower(line[1]) = kw

\* lower_line == kw
IsBare(line, kw) == Len(line) = 1 /\ Lower(line[1]) = kw

IsBlank(line) == line = << >>

\* line.startswith('#'): the model writes a comment as "# text"
IsComment(line) == Len(line) >= 1 /\ line[1] = "#"

Closers == {"else", "endif", "endfor", "endwhile", "enddef"}

IsCloser(line) == Len(line) = 1 /\ Lower(line[1]) \in Closers

Rest(line, k) == SubSeq(line, k, Len(line))

\* the variable store: a Python dict
Bind(store, n, v) == [m \in DOMAIN store \cup {n} |-> IF m = n THEN v ELSE store[m]]

Unbind(store, n) == [m \in DOMAIN store \ {n} |-> store[m]]

ExtendFront(res, expanded) == expanded \o res

\* result.extend(expanded)
Extend(res, expanded) == res \o expanded

(***************************************************************************)
(* _extract_subroutines                                                    *)
(***************************************************************************)
\* the inner loop (lines 1750-1759): the index of the closing enddef, or
\* Len(ls) + 1 when the definition is not closed
DefEndFirst(ls, j, depth) ==
    LET S == {m \in j..Len(ls) : IsBare(ls[m], "enddef")}
    IN  IF S = {} THEN Len(ls) + 1 ELSE CHOOSE m \in S : \A r \in S : m <= r

RECURSIVE DefEnd(_, _, _)
DefEnd(ls, j, depth) ==
    IF j > Len(ls) THEN j
    ELSE IF StartsWith(ls[j], "def") THEN DefEnd(ls, j + 1, depth + 1)
    ELSE IF IsBare(ls[j], "enddef")
         THEN IF depth - 1 = 0 THEN j ELSE DefEnd(ls, j + 1, depth - 1)
    ELSE DefEnd(ls, j + 1, depth)

RECURSIVE ExtractFrom(_, _, _)
ExtractFrom(ls, j, acc) ==
    IF j > Len(ls) THEN acc
    ELSE IF StartsWith(ls[j], "def")
         THEN LET e == DefEnd(ls, j + 1, 1)
              IN  ExtractFrom(ls, e + 1,
                      [acc EXCEPT !.subs = Bind(@, Rest(ls[j], 2), SubSeq(ls, j + 1, e - 1))])
    ELSE ExtractFrom(ls, j + 1, [acc EXCEPT !.rest = Append(@, ls[j])])

ExtractExpanded(ls, subs) ==
    LET x == ExtractFrom(ls, 1, [rest |-> << >>, subs |-> subs])
    IN  [rest |-> x.rest,
         subs |-> [n \in DOMAIN x.subs |->
                     [q \in 1..Len(x.subs[n]) |-> expand_variables(<< >>, x.subs[n][q])]]]

\* [rest, subs]: the lines that remain and the subroutine table
extract_subroutines(ls, subs) == ExtractFrom(ls, 1, [rest |-> << >>, subs |-> subs])

(***************************************************************************)
(* load_script_file without an interpreter (lines 2212-2219), the only way *)
(* _handle_include calls it: visited is a fresh set and interpreter is     *)
(* None on every call (line 1862).                                         *)
(***************************************************************************)
NoDiag == << >>

Fallback(ls) == SelectSeq(ls, LAMBDA l : ~IsBlank(l) /\ ~IsComment(l))

load_included(fsys, path, visited) ==
    IF path \in visited
    THEN [out |-> << >>, diag |-> <<"Warning: Skipping already included file">>]
    ELSE [out |-> Fallback(fsys[path]), diag |-> NoDiag]

handle_include(line, store, fsys) ==
    LET arg == Rest(line, 2)
        found == Len(arg) = 1 /\ arg[1] \in DOMAIN fsys
        r == load_included(fsys, arg[1], {})
    IN  IF ~found
        THEN [out |-> << >>, vars |-> store, exc |-> FALSE,
              diag |-> <<"Error: Include file not found">>]
        ELSE [out |-> r.out, vars |-> store, exc |-> FALSE, diag |-> r.diag]

(***************************************************************************)
(* _handle_set                                                             *)
(***************************************************************************)
handle_set_raw(line, store) ==
    [out |-> << >>, vars |-> Bind(store, line[2], Rest(line, 3)), exc |-> FALSE, diag |-> NoDiag]

handle_set(line, store) ==
    IF ~IsWord(line[2])
    THEN [out |-> << >>, vars |-> store, exc |-> FALSE,
          diag |-> <<"Error: Invalid set syntax">>]
    ELSE LET after == Rest(line, 3)
             value == IF after # << >> /\ after[1] = "=" THEN Tail(after) ELSE after
             v == evaluate_expression(store, IF value = << >> THEN EmptyStr ELSE value)
         IN  [out |-> << >>, vars |-> Bind(store, line[2], v.s), exc |-> FALSE,
              diag |-> NoDiag]

(***************************************************************************)
(* _find_block_end                                                         *)
(***************************************************************************)
IsOpener(line) ==
    StartsWith(line, "for") \/ StartsWith(line, "while") \/ StartsWith(line, "if")

IsBlockCloser(line) == Len(line) = 1 /\ Lower(line[1]) \in {"endfor", "endwhile", "endif"}

\* the first closer of the kind, whatever lies between
BlockEndFirst(ls, j, nested, end_keyword) ==
    LET S == {m \in j..Len(ls) : IsBare(ls[m], end_keyword)}
    IN  IF S = {} THEN Len(ls) + 1 ELSE CHOOSE m \in S : \A r \in S : m <= r

\* the index of the matching closer, or Len(ls) + 1
RECURSIVE BlockEnd(_, _, _, _)
BlockEnd(ls, j, nested, end_keyword) ==
    IF j > Len(ls) THEN j
    ELSE IF IsOpener(ls[j]) THEN BlockEnd(ls, j + 1, nested + 1, end_keyword)
    ELSE IF IsBlockCloser(ls[j])
         THEN IF nested = 0 /\ IsBare(ls[j], end_keyword) THEN j
              ELSE BlockEnd(ls, j + 1, nested - 1, end_keyword)
    ELSE BlockEnd(ls, j + 1, nested, end_keyword)

find_block_end(ls, start, end_keyword) ==
    LET e == BlockEnd(ls, start, 0, end_keyword)
    IN  [block |-> SubSeq(ls, start, e - 1), idx |-> e,
         diag |-> IF e > Len(ls) THEN <<"Warning: No matching end found">> ELSE NoDiag]


(***************************************************************************)
(* Pieces of the handlers.                                                 *)
(***************************************************************************)
RangeValuesExclusive(a, b, step) ==
    IF b <= a THEN << >>
    ELSE [k \in 1..(((b - 1 - a) \div step) + 1) |-> <<ToString(a + (k - 1) * step)>>]

\* list(range(start_val, end_val + 1, step)) for step >= 1, as str() of each
RangeValues(a, b, step) ==
    IF b < a THEN << >>
    ELSE [k \in 1..(((b - a) \div step) + 1) |-> <<ToString(a + (k - 1) * step)>>]

\* lines 1926-1948, the for header: [ok, var, raises, values]
ForHeader(line) ==
    LET ok == Len(line) >= 4 /\ IsWord(line[2]) /\ Lower(line[3]) = "in"
        vs == Rest(line, 4)
        isRange == \/ Len(vs) = 1 /\ IsRangeTok(vs[1])
                   \/ Len(vs) = 3 /\ IsRangeTok(vs[1]) /\ vs[2] = "step" /\ IsDigits(vs[3])
        step == IF Len(vs) = 3 THEN NumOf[vs[3]] ELSE 1
    IN  [ok |-> ok,
         var |-> IF ok THEN line[2] ELSE "",
         \* range() with a step of 0 raises ValueError
         raises |-> ok /\ isRange /\ step = 0,
         values |-> IF ~ok \/ (isRange /\ step = 0) THEN << >>
                    ELSE IF isRange THEN RangeValues(RangeLo(vs[1]), RangeHi(vs[1]), step)
                    ELSE [k \in 1..Len(vs) |-> <<vs[k]>>]]

AfterIterationKeep(before, after, var) == after

AfterIterationScoped(before, after, var) == before

\* lines 1962 and 1968-1971: the store after an iteration, from the store
\* before it bound var and the store the body left
AfterIteration(before, after, var) ==
    IF var \in DOMAIN before THEN Bind(after, var, before[var]) ELSE Unbind(after, var)

LimitReachedLate(iteration) == iteration > max_iterations

\* lines 1958 and 1998
LimitReached(iteration) == iteration >= max_iterations

DepthExceededEarly(depth) == depth >= MaxDepth

\* line 1771
DepthExceeded(depth) == depth > MaxDepth

\* lines 2021-2049: [if_lines, else_lines, idx], idx = 0 when no endif matches
RECURSIVE IfScan(_, _, _, _, _, _)
IfScan(ls, j, nested, found_else, if_lines, else_lines) ==
    IF j > Len(ls) THEN [if_lines |-> if_lines, else_lines |-> else_lines, idx |-> 0]
    ELSE IF IsBare(ls[j], "endif") /\ nested = 0
         THEN [if_lines |-> if_lines, else_lines |-> else_lines, idx |-> j]
    ELSE IF IsBare(ls[j], "else") /\ nested = 0
         THEN IfScan(ls, j + 1, nested, TRUE, if_lines, else_lines)
    ELSE LET n2 == IF StartsWith(ls[j], "if") THEN nested + 1
                   ELSE IF IsBare(ls[j], "endif") THEN nested - 1
                   ELSE nested
         IN  IF found_else
             THEN IfScan(ls, j + 1, n2, found_else, if_lines, Append(else_lines, ls[j]))
             ELSE IfScan(ls, j + 1, n2, found_else, Append(if_lines, ls[j]), else_lines)

TakenBranchSwapped(b, sc) == IF b THEN sc.else_lines ELSE sc.if_lines

\* lines 2056-2059
TakenBranch(b, sc) == IF b THEN sc.if_lines ELSE sc.else_lines

\* a call that starts from a store without the caller's other arguments
RECURSIVE BindArgsIsolated(_, _, _)
BindArgsIsolated(store, args, k) ==
    IF k > Len(args) THEN store
    ELSE LET own == IF k = 1
                    THEN [m \in {n \in DOMAIN store : \A j \in 1..9 : n # ToString(j)}
                            |-> store[m]]
                    ELSE store
         IN  BindArgsIsolated(Bind(own, ToString(k), <<args[k]>>), args, k + 1)

\* lines 2083-2085
RECURSIVE BindArgs(_, _, _)
BindArgs(store, args, k) ==
    IF k > Len(args) THEN store
    ELSE BindArgs(Bind(store, ToString(k), <<args[k]>>), args, k + 1)

RestoreArgsNone(store, old, nargs, k) == store

\* lines 2091-2095, old being the store at the call
RECURSIVE RestoreArgs(_, _, _, _)
RestoreArgs(store, old, nargs, k) ==
    IF k > nargs THEN store
    ELSE LET key == ToString(k)
             s2 == IF key \in DOMAIN old THEN Bind(store, key, old[key])
                   ELSE IF key \in DOMAIN store THEN Unbind(store, key)
                   ELSE store
         IN  RestoreArgs(s2, old, nargs, k + 1)

\* the order of the tests of lines 1782-1830
LineKind(line) ==
    CASE IsBlank(line) \/ IsComment(line) -> "skip"
      [] StartsWith(line, "include") -> "include"
      [] StartsWith(line, "set") -> "set"
      [] StartsWith(line, "for") -> "for"
      [] StartsWith(line, "while") -> "while"
      [] StartsWith(line, "if") -> "if"
      [] StartsWith(line, "call") -> "call"
      [] IsCloser(line) -> "closer"
      [] OTHER -> "literal"

(***************************************************************************)
(* Frames.                                                                 *)
(***************************************************************************)
Restrict(store, keys) == [m \in DOMAIN store \cap keys |-> store[m]]

ArgKeys(nargs) == {ToString(k) : k \in 1..nargs}

\* an activation of _expand_block: its lines, cursor i, depth and result
BlockFrame(ls, depth) ==
    [t |-> "block", ls |-> ls, i |-> 1, depth |-> depth, res |-> << >>]

\* an activation of _handle_for.  snapshot is the store when the iteration
\* began: old_val of line 1962 is snapshot[var], or None when var is not
\* bound in it.  pre is the store at entry.
ForFrame(h, blk, depth, store) ==
    [t |-> "for", var |-> h.var, values |-> h.values, k |-> 1, iteration |-> 0,
     block |-> blk.block, result |-> << >>, next |-> blk.idx + 1, depth |-> depth,
     snapshot |-> << >>, pre |-> store]

WhileFrame(condition, blk, depth, store) ==
    [t |-> "while", condition |-> condition, iteration |-> 0, block |-> blk.block,
     result |-> << >>, next |-> blk.idx + 1, depth |-> depth, pre |-> store]

IfFrame(b, sc, depth, store) ==
    [t |-> "if", taken |-> b, next |-> sc.idx + 1, depth |-> depth, pre |-> store]

CallFrame(name, args, depth, store) ==
    [t |-> "call", name |-> name, args |-> args,
     old_args |-> Restrict(store, ArgKeys(Len(args))), depth |-> depth, pre |-> store]

Top == stack[Len(stack)]

Below == stack[Len(stack) - 1]

Pop(n) == SubSeq(stack, 1, Len(stack) - n)

ReplaceTop(st, f) == [st EXCEPT ![Len(st)] = f]

\* the caller's loop goes on at next with out appended to its result
Deliver(frame, out, next) == [frame EXCEPT !.res = Extend(@, out), !.i = next]

Advance(out) == ReplaceTop(stack, Deliver(Top, out, Top.i + 1))

Running == pc = "expand" /\ stack # << >>

\* the loop of _expand_block stands at a line
AtLine == /\ Running
          /\ Top.t = "block"
          /\ ~DepthExceeded(Top.depth)
          /\ Top.i <= Len(Top.ls)

Line == Top.ls[Top.i]

\* _expand_block returns: line 1773 or line 1840
Returning == /\ Running
             /\ Top.t = "block"
             /\ (DepthExceeded(Top.depth) \/ Top.i > Len(Top.ls))

Returned == IF DepthExceeded(Top.depth) THEN << >> ELSE Top.res

ReturnDiag ==
    IF DepthExceeded(Top.depth) THEN <<"Error: Maximum nesting depth exceeded">> ELSE NoDiag

(***************************************************************************)
(* Scripts.                                                                *)
(***************************************************************************)
TopFile == "main.txt"

\* the lines the scripts of the model are made of
SayHi == <<"say", "hi">>
SayRound == <<"say", "Round", "$x">>
SayEnd == <<"say", "end", "$x", "$y", "$n", "$k">>
EndFor == <<"endfor">>
EndWhile == <<"endwhile">>
EndIf == <<"endif">>
Else == <<"else">>
EndDef == <<"enddef">>

\* what a generated block body is made of
Items == {
    <<SayRound>>,
    <<SayHi>>,
    << <<"set", "y", "$x">> >>,
    << <<"set", "x", "9">> >>,
    << <<"call", "greet", "a">> >>,
    << <<"set", "n", "$n", "-", "1">> >>,
    << <<"for", "x", "in", "a", "b">>, <<"say", "$x">>, EndFor >>,
    << <<"if", "$x", "==", "1">>, <<"say", "Yes">>, Else, <<"say", "No">>, EndIf >>
    }

MaxBody == 2

RECURSIVE BodiesUpTo(_)
BodiesUpTo(m) ==
    IF m = 0 THEN {<< >>}
    ELSE LET B == BodiesUpTo(m - 1) IN B \cup {b \o it : b \in B, it \in Items}

NWrap == 7

\* a body inside one construct; the while always counts n down, so that
\* only the scripts written for it run into the iteration ceiling
Wrap(w, body) ==
    CASE w = 1 -> << <<"for", "x", "in", "1..2">> >> \o body \o <<EndFor>>
      [] w = 2 -> << <<"for", "x", "in", "a", "b">> >> \o body \o <<EndFor>>
      [] w = 3 -> << <<"FOR", "x", "IN", "0..3", "step", "2">> >> \o body \o << <<"ENDFOR">> >>
      [] w = 4 -> << <<"while", "$n", ">", "0">> >> \o body
                  \o << <<"set", "n", "$n", "-", "1">>, EndWhile >>
      [] w = 5 -> << <<"if", "$x", "==", "1">> >> \o body
                  \o << Else, <<"say", "No">>, <<"set", "k", "2">>, EndIf >>
      [] w = 6 -> << <<"if", "$n", ">", "0">> >> \o body \o <<EndIf>>
      [] OTHER -> << <<"for", "x", "in", "1..2">> >> \o body

Pres == {
    << >>,
    << <<"set", "x", "1">> >>,
    << <<"set", "n", "2">> >>,
    << <<"set", "x", "5">>, <<"set", "n", "1">> >>
    }

Defs == << <<"def", "greet">>, <<"say", "Hello", "$1", "$x">>, EndDef >>

Generated ==
    {Defs \o pre \o Wrap(w, body) \o <<SayEnd>> :
        pre \in Pres, w \in 1..NWrap, body \in BodiesUpTo(MaxBody)}

\* for x in A..B [step S] around k literal lines; S = MaxStep + 1 stands
\* for a header without a step
MaxStep == 3

MaxLits == 2

Lits == <<SayRound, <<"say", "hi", "$x">>, <<"say", "Yes">> >>

RangeHeader(a, b, st) ==
    IF st > MaxStep THEN <<"for", "x", "in", RangeTok(a, b)>>
    ELSE <<"for", "x", "in", RangeTok(a, b), "step", ToString(st)>>

RangeScripts ==
    {<<RangeHeader(a, b, st)>> \o SubSeq(Lits, 1, k) \o <<EndFor, SayEnd>> :
        a \in 0..MaxRange, b \in 0..MaxRange, st \in 0..(MaxStep + 1), k \in 0..MaxLits}

\* scripts of literal, blank and comment lines only
PlainLines == {SayHi, <<"say", "Yes">>, <<"Say", "No">>, << >>, <<"#", "hi">>}

RECURSIVE SeqsUpTo(_, _)
SeqsUpTo(S, m) ==
    IF m = 0 THEN {<< >>}
    ELSE LET B == SeqsUpTo(S, m - 1) IN B \cup {Append(b, l) : b \in B, l \in S}

PlainScripts == SeqsUpTo(PlainLines, MaxLits + 1)

\* a guard that holds for ever, around k literal lines
EndlessScripts ==
    {<< <<"set", "COUNT", "1">>, <<"while", "$COUNT", ">", "0">> >>
        \o SubSeq(<<SayHi, <<"say", "Yes">>, <<"say", "No">> >>, 1, k)
        \o <<EndWhile, <<"say", "end", "$COUNT">> >> : k \in 0..MaxLits}

\* ranges of max_iterations values and of one more
LongScripts ==
    {<< <<"for", "x", "in", RangeTok(a, max_iterations)>>, SayRound, EndFor, SayEnd >> :
        a \in 0..1}

\* if 5 > 3 / say Yes / else / say No / endif
IfExample == << <<"if", "5", ">", "3">>, <<"say", "Yes">>, Else, <<"say", "No">>, EndIf >>

\* def r / say r $1 / call r b / say after / enddef / say before / call r a / say end $1
Recursive ==
    << <<"def", "r">>, <<"say", "r", "$1">>, <<"call", "r", "b">>, <<"say", "after">>, EndDef,
       <<"say", "before">>, <<"call", "r", "a">>, <<"say", "end", "$1">> >>

\* f calls g and g calls f
MutuallyRecursive ==
    << <<"def", "f">>, <<"say", "f">>, <<"call", "g">>, EndDef,
       <<"def", "g">>, <<"say", "g">>, <<"call", "f">>, EndDef,
       <<"call", "f">>, <<"say", "end">> >>

\* the same subroutine called twice around a set, and once without argument
TwoCalls ==
    Defs \o << <<"set", "x", "1">>, <<"call", "greet", "a">>, <<"set", "x", "2">>,
               <<"call", "greet", "b">>, <<"call", "greet">> >>

\* a for-list token that is itself a reference, read back as $x and ${x}
Rescan ==
    << <<"set", "y", "5">>, <<"for", "x", "in", "$y">>, <<"say", "$x", "${x}">>, EndFor >>

\* set x 3 / say Count $x
SetExample == << <<"set", "x", "3">>, <<"say", "Count", "$x">> >>

\* arithmetic, the = form, an unbound operand, a division by zero, no value
Arithmetic ==
    << <<"set", "x", "2", "*", "3">>, <<"set", "y", "=", "$x", "%", "4">>, <<"set", "n", "$k", "-", "1">>,
       <<"set", "k", "7", "%", "0">>, <<"set", "1">>, <<"say", "${x}", "$1">>, SayEnd >>

\* a body that sets $1 and calls with more arguments than it was given
Positional ==
    << <<"def", "f">>, <<"set", "1", "9">>, <<"call", "g", "b", "c">>, <<"say", "f", "$1", "$2">>,
       EndDef,
       <<"def", "g">>, <<"say", "g", "$1", "$2">>, <<"set", "2", "a">>, EndDef,
       <<"set", "1", "5">>, <<"call", "f", "a">>, <<"say", "end", "$1", "$2">> >>

\* a def inside a def, and the call of both
NestedDef ==
    << SayHi, <<"def", "f">>, <<"def", "g">>, <<"say", "hi">>, EndDef, <<"say", "Yes">>, EndDef,
       <<"call", "f">>, <<"call", "g">>, <<"say", "end">> >>

Special == {
    IfExample,
    NestedDef,
    Positional,
    SetExample,
    Arithmetic,
    Rescan,
    Recursive,
    MutuallyRecursive,
    \* a recursive call inside a loop inside the subroutine
    << <<"def", "r">>, <<"for", "x", "in", "a">>, <<"say", "r", "$x">>, <<"call", "r">>, EndFor, EndDef,
       <<"set", "x", "1">>, <<"call", "r">>, <<"say", "end", "$x">> >>,
    TwoCalls,
    \* a definition that is not closed
    << SayHi, <<"def", "f">>, <<"say", "Yes">> >>,
    \* includes: a file, a cycle, the script itself, a missing file
    << SayHi, <<"include", "a.txt">>, <<"say", "end", "$x">> >>,
    << <<"include", "c.txt">>, <<"include", "c.txt">> >>,
    << SayHi, <<"include", "main.txt">> >>,
    << <<"include", "missing.txt">>, SayHi >>,
    << <<"for", "x", "in", "1..2">>, <<"include", "b.txt">>, EndFor >>,
    \* keywords without operands
    << <<"for">>, <<"while">>, <<"if">>, <<"set">>, <<"call">>, <<"def">>, <<"include">>, SayHi >>,
    \* malformed constructs and closers out of place
    << <<"for", "x", "1..2">>, SayHi, EndFor, <<"say", "end">> >>,
    << <<"set", "$x", "1">>, <<"call", "$x">>, <<"call", "g">>, <<"say", "end", "$x">> >>,
    << Else, EndIf, EndWhile, EndDef, <<"ENDFOR">>, SayHi >>,
    << <<"if", "1", "==", "1">>, SayHi, <<"say", "end">> >>,
    << <<"if", "1", "==", "2">>, SayHi, <<"say", "end">> >>,
    << <<"while", "1", "==", "1">>, <<"set", "x", "1">>, SayHi >>,
    << <<"set", "x", "1">>, <<"if", "$x", "==", "1">>, <<"for", "y", "in", "a">>, <<"say", "$y">>,
       EndIf, <<"say", "end">>, EndFor >>,
    \* conditions without an operator, on strings, and one that raises
    << <<"if", "$x">>, SayHi, Else, <<"say", "No">>, EndIf,
       <<"set", "x", "a">>, <<"if", "$x">>, <<"say", "Yes">>, EndIf,
       <<"if", "$x", "<", "b">>, <<"say", "Yes">>, EndIf,
       <<"if", "$x", "!=", "1">>, <<"say", "Yes">>, EndIf,
       <<"if", "$x", ">=", "1">>, <<"say", "Yes">>, EndIf, <<"say", "end">> >>,
    \* nested ifs, an else of the inner one only
    << <<"set", "x", "1">>, <<"if", "$x", "==", "1">>, <<"if", "$x", "==", "2">>, SayHi, Else,
       <<"say", "No">>, EndIf, <<"set", "y", "b">>, Else, <<"set", "y", "c">>, <<"call", "greet">>,
       EndIf, SayEnd >>,
    \* a bare reference as a whole line
    << <<"$x">>, SayHi >>
    }

\* set 1 5 / call g a b / say end $1 $2: no subroutine g
UnknownCall ==
    << <<"set", "1", "5">>, <<"call", "g", "a", "b">>, <<"say", "end", "$1", "$2">> >>

\* conditions with more than one operator
OperatorPriority ==
    << <<"if", "b", "<", "a", "==", "b", "<", "a">>, <<"say", "Yes">>, EndIf,
       <<"if", "a", "==", "b", "==", "a", "==", "b">>, <<"say", "No">>, EndIf,
       <<"if", "2", ">=", "2">>, SayHi, EndIf,
       <<"if", "1", "==", "1", "<", "0">>, <<"say", "end">>, EndIf >>

\* a guard that is false on entry
WhileFalse ==
    << <<"set", "n", "0">>, <<"while", "$n", ">", "0">>, SayHi,
       <<"set", "n", "$n", "-", "1">>, EndWhile, <<"say", "end", "$n">> >>

\* def g / say g $1 $2 / enddef / def f / call g b / say f $1 $2 / enddef
\* / call f a c / say end $1 $2: g is called with fewer arguments than f
FewerArgs ==
    << <<"def", "g">>, <<"say", "g", "$1", "$2">>, EndDef,
       <<"def", "f">>, <<"call", "g", "b">>, <<"say", "f", "$1", "$2">>, EndDef,
       <<"call", "f", "a", "c">>, <<"say", "end", "$1", "$2">> >>

\* a connect command among the commands
Reconnect == << SayHi, <<"connect">>, <<"say", "end">> >>

\* two async commands and a sync one
AsyncScript ==
    << <<"say", "hi", "async=true">>, <<"say", "Yes", "async=true">>, <<"say", "end">> >>

\* scripts that are about the commands: options, offline commands, a
\* command that raises when it is executed, entries that do not parse
CommandScripts == {
    AsyncScript,
    UnknownCall,
    OperatorPriority,
    WhileFalse,
    FewerArgs,
    Reconnect,
    << <<"say", "hi", "async=true">>, <<"connect">>, <<"say", "Yes", "async=true">> >>,
    \* a while inside a for, inside a while and inside an if
    << <<"set", "n", "1">>, <<"set", "k", "1">>, <<"for", "x", "in", "a">>,
       <<"while", "$n", ">", "0">>,
       <<"while", "$k", ">", "0">>, <<"set", "k", "$k", "-", "1">>, EndWhile,
       <<"if", "$n", ">", "0">>, <<"while", "$k", ">", "5">>, <<"say", "No">>, EndWhile,
       <<"say", "$x">>, Else, <<"say", "No">>, EndIf,
       <<"set", "n", "$n", "-", "1">>, EndWhile, EndFor, SayEnd >>,
    << <<"say", "hi", "async=true">>, <<"volume", "loud">>, <<"say", "end">> >>,
    << <<"list-anims">>, <<"list-groups">> >>,
    << SayHi, <<"volume", "5">>, <<"say", "hi", "volume=5">> >>,
    << SayHi, <<"say", "Yes">>, <<"say", "hi", "bogus=1">> >>,
    << SayHi, <<"say", "hi", "async=maybe">> >>,
    << SayHi, <<"say", "hi", "volume=loud">> >>,
    << SayHi, <<"volume">> >>,
    << SayHi, <<"volume", "5", "5">> >>,
    << <<"list-anims">>, <<"$x">> >>
    }

Scripts ==
    Generated \cup RangeScripts \cup PlainScripts \cup EndlessScripts \cup LongScripts
        \cup Special \cup CommandScripts

OtherFiles ==
    [f \in {"a.txt", "b.txt", "c.txt"} |->
        CASE f = "a.txt" -> << <<"say", "a">>, <<"include", "b.txt">>, <<"#", "hi">>, << >>,
                               <<"set", "x", "1">>, <<"for", "x", "in", "1..2">> >>
          [] f = "b.txt" -> << <<"say", "b", "$x">>, <<"include", "a.txt">> >>
          [] OTHER -> << <<"include", "c.txt">>, <<"say", "c">> >>]

FileSystems ==
    {[f \in DOMAIN OtherFiles \cup {TopFile} |->
        IF f = TopFile THEN sc ELSE OtherFiles[f]] : sc \in Scripts}

(***************************************************************************)
(* The state machine.                                                      *)
(***************************************************************************)
Init ==
    /\ pc = "start"
    /\ fs \in FileSystems
    /\ lines = << >>
    /\ stack = << >>
    /\ variables = << >>
    /\ subroutines = << >>
    /\ result = << >>
    /\ diag = << >>
    /\ commands = << >>
    /\ executed = << >>
    /\ rc = "none"
    /\ cli = "None"
    /\ connected = FALSE
    /\ bg_threads = << >>
    /\ alive = << >>
    /\ threads = << >>
    /\ joining = 0
    /\ timed_out = {}
    /\ attempt = 0

\* main, lines 2244-2245: load_script_file(filepath, interpreter=interpreter)
\* reads the file (lines 2184-2202)
LoadScript ==
    /\ pc = "start"
    /\ lines' = fs[TopFile]
    /\ pc' = "extract"
    /\ UNCHANGED <<fs, stack, variables, subroutines, result, diag>>
    /\ UNCHANGED mainvars

\* preprocess, lines 1725-1728: the first pass and the call of _expand_block
ExtractSubroutines ==
    /\ pc = "extract"
    /\ LET x == extract_subroutines(lines, subroutines)
       IN  /\ lines' = x.rest
           /\ subroutines' = x.subs
           /\ stack' = <<BlockFrame(x.rest, 0)>>
    /\ pc' = "expand"
    /\ UNCHANGED <<fs, variables, result, diag>>
    /\ UNCHANGED mainvars

\* lines 1782-1784
SkipLine ==
    /\ AtLine
    /\ LineKind(Line) = "skip"
    /\ stack' = Advance(<< >>)
    /\ UNCHANGED <<pc, fs, lines, variables, subroutines, result, diag>>
    /\ UNCHANGED mainvars

\* lines 1789-1793
Include ==
    /\ AtLine
    /\ LineKind(Line) = "include"
    /\ LET r == handle_include(Line, variables, fs)
       IN  /\ stack' = Advance(r.out)
           /\ diag' = diag \o r.diag
    /\ UNCHANGED <<pc, fs, lines, variables, subroutines, result>>
    /\ UNCHANGED mainvars

\* lines 1796-1799
Set ==
    /\ AtLine
    /\ LineKind(Line) = "set"
    /\ LET r == handle_set(Line, variables)
       IN  /\ variables' = r.vars
           /\ diag' = diag \o r.diag
    /\ stack' = Advance(<< >>)
    /\ UNCHANGED <<pc, fs, lines, subroutines, result>>
    /\ UNCHANGED mainvars

\* lines 1830-1833
UnexpectedCloser ==
    /\ AtLine
    /\ LineKind(Line) = "closer"
    /\ stack' = Advance(<< >>)
    /\ diag' = Append(diag, "Warning: Unexpected")
    /\ UNCHANGED <<pc, fs, lines, variables, subroutines, result>>
    /\ UNCHANGED mainvars

\* lines 1836-1838
Literal ==
    /\ AtLine
    /\ LineKind(Line) = "literal"
    /\ stack' = Advance(<<expand_variables(variables, Line)>>)
    /\ UNCHANGED <<pc, fs, lines, variables, subroutines, result, diag>>
    /\ UNCHANGED mainvars

\* _handle_for up to its loop, lines 1926-1955
ForEnter ==
    /\ AtLine
    /\ LineKind(Line) = "for"
    /\ LET h == ForHeader(Line)
           blk == find_block_end(Top.ls, Top.i + 1, "endfor")
       IN  CASE ~h.ok ->
                  /\ stack' = Advance(<< >>)
                  /\ diag' = Append(diag, "Error: Invalid for syntax")
                  /\ pc' = pc
             [] h.ok /\ h.raises ->
                  /\ pc' = "crashed"
                  /\ UNCHANGED <<stack, diag>>
             [] OTHER ->
                  /\ stack' = Append(stack, ForFrame(h, blk, Top.depth, variables))
                  /\ diag' = diag \o blk.diag
                  /\ pc' = pc
    /\ UNCHANGED <<fs, lines, variables, subroutines, result>>
    /\ UNCHANGED mainvars

\* lines 1957-1965: the next value is bound and the block is expanded
ForIter ==
    /\ Running
    /\ Top.t = "for"
    /\ Top.k <= Len(Top.values)
    /\ ~LimitReached(Top.iteration)
    /\ variables' = Bind(variables, Top.var, Top.values[Top.k])
    /\ stack' = Append(ReplaceTop(stack, [Top EXCEPT !.snapshot = variables]),
                       BlockFrame(Top.block, Top.depth + 1))
    /\ UNCHANGED <<pc, fs, lines, subroutines, result, diag>>
    /\ UNCHANGED mainvars

\* lines 1966-1973: the block has returned
ForIterEnd ==
    /\ Returning
    /\ Len(stack) >= 2
    /\ Below.t = "for"
    \* del of a name that is not bound raises KeyError
    /\ LET key_error == Below.var \notin DOMAIN Below.snapshot /\ Below.var \notin DOMAIN variables
       IN  /\ pc' = IF key_error THEN "crashed" ELSE pc
           /\ variables' = AfterIteration(Below.snapshot, variables, Below.var)
    /\ stack' = ReplaceTop(Pop(1), [Below EXCEPT !.result = Extend(@, Returned),
                                                 !.k = @ + 1,
                                                 !.iteration = @ + 1])
    /\ diag' = diag \o ReturnDiag
    /\ UNCHANGED <<fs, lines, subroutines, result>>
    /\ UNCHANGED mainvars

\* lines 1957-1960 and 1975: the loop ends and _handle_for returns
ForExit ==
    /\ Running
    /\ Top.t = "for"
    /\ Top.k > Len(Top.values) \/ LimitReached(Top.iteration)
    /\ stack' = ReplaceTop(Pop(1), Deliver(Below, Top.result, Top.next))
    /\ diag' = IF Top.k <= Len(Top.values)
               THEN Append(diag, "Warning: For loop exceeded max iterations")
               ELSE diag
    /\ UNCHANGED <<pc, fs, lines, variables, subroutines, result>>
    /\ UNCHANGED mainvars

\* _handle_while up to its loop, lines 1981-1995
WhileEnter ==
    /\ AtLine
    /\ LineKind(Line) = "while"
    /\ LET blk == find_block_end(Top.ls, Top.i + 1, "endwhile")
       IN  /\ stack' = Append(stack, WhileFrame(Rest(Line, 2), blk, Top.depth, variables))
           /\ diag' = diag \o blk.diag
    /\ UNCHANGED <<pc, fs, lines, variables, subroutines, result>>
    /\ UNCHANGED mainvars

\* a while whose guard is evaluated against the store at its entry
WhileIterStale ==
    /\ Running
    /\ Top.t = "while"
    /\ LET c == evaluate_condition(Top.pre, Top.condition)
       IN  /\ c.exc \/ (c.b /\ ~LimitReached(Top.iteration))
           /\ IF c.exc
              THEN pc' = "crashed" /\ stack' = stack
              ELSE pc' = pc /\ stack' = Append(stack, BlockFrame(Top.block, Top.depth + 1))
    /\ UNCHANGED <<fs, lines, variables, subroutines, result, diag>>
    /\ UNCHANGED mainvars

\* lines 1997-2002: the guard holds (or raises) and the block is expanded
WhileIter ==
    /\ Running
    /\ Top.t = "while"
    /\ LET c == evaluate_condition(variables, Top.condition)
       IN  /\ c.exc \/ (c.b /\ ~LimitReached(Top.iteration))
           /\ IF c.exc
              THEN pc' = "crashed" /\ stack' = stack
              ELSE pc' = pc /\ stack' = Append(stack, BlockFrame(Top.block, Top.depth + 1))
    /\ UNCHANGED <<fs, lines, variables, subroutines, result, diag>>
    /\ UNCHANGED mainvars

\* lines 2003-2004
WhileIterEnd ==
    /\ Returning
    /\ Len(stack) >= 2
    /\ Below.t = "while"
    /\ stack' = ReplaceTop(Pop(1), [Below EXCEPT !.result = Extend(@, Returned),
                                                 !.iteration = @ + 1])
    /\ diag' = diag \o ReturnDiag
    /\ UNCHANGED <<pc, fs, lines, variables, subroutines, result>>
    /\ UNCHANGED mainvars

\* lines 1997-2000 and 2006: the guard fails or the ceiling is reached
WhileExit ==
    /\ Running
    /\ Top.t = "while"
    /\ LET c == evaluate_condition(variables, Top.condition)
       IN  /\ ~c.exc
           /\ ~c.b \/ LimitReached(Top.iteration)
           /\ diag' = IF c.b
                      THEN Append(diag, "Warning: While loop exceeded max iterations")
                      ELSE diag
    /\ stack' = ReplaceTop(Pop(1), Deliver(Below, Top.result, Top.next))
    /\ UNCHANGED <<pc, fs, lines, variables, subroutines, result>>
    /\ UNCHANGED mainvars

\* _handle_if up to the expansion of a branch, lines 2012-2059
IfEnter ==
    /\ AtLine
    /\ LineKind(Line) = "if"
    /\ LET sc == IfScan(Top.ls, Top.i + 1, 0, FALSE, << >>, << >>)
           c == evaluate_condition(variables, Rest(Line, 2))
       IN  CASE sc.idx = 0 ->
                  /\ stack' = Advance(<< >>)
                  /\ diag' = Append(diag, "Error: No matching endif")
                  /\ pc' = pc
             [] sc.idx # 0 /\ c.exc ->
                  /\ pc' = "crashed"
                  /\ UNCHANGED <<stack, diag>>
             [] OTHER ->
                  /\ stack' = stack \o <<IfFrame(c.b, sc, Top.depth, variables),
                                         BlockFrame(TakenBranch(c.b, sc), Top.depth + 1)>>
                  /\ pc' = pc
                  /\ diag' = diag
    /\ UNCHANGED <<fs, lines, variables, subroutines, result>>
    /\ UNCHANGED mainvars

\* line 2061: the branch has returned and so does _handle_if
IfReturn ==
    /\ Returning
    /\ Len(stack) >= 3
    /\ Below.t = "if"
    /\ stack' = ReplaceTop(Pop(2), Deliver(stack[Len(stack) - 2], Returned, Below.next))
    /\ diag' = diag \o ReturnDiag
    /\ UNCHANGED <<pc, fs, lines, variables, subroutines, result>>
    /\ UNCHANGED mainvars

\* a _handle_call that binds the arguments before it looks the name up
CallEnterBindFirst ==
    /\ AtLine
    /\ LineKind(Line) = "call"
    /\ LET args == Rest(Line, 3)
       IN  CASE ~IsWord(Line[2]) ->
                  /\ stack' = Advance(<< >>)
                  /\ diag' = Append(diag, "Error: Invalid call syntax")
                  /\ variables' = variables
             [] IsWord(Line[2]) /\ <<Line[2]>> \notin DOMAIN subroutines ->
                  /\ stack' = Advance(<< >>)
                  /\ diag' = Append(diag, "Error: Subroutine not found")
                  /\ variables' = BindArgs(variables, args, 1)
             [] OTHER ->
                  /\ variables' = BindArgs(variables, args, 1)
                  /\ stack' = stack \o <<CallFrame(Line[2], args, Top.depth, variables),
                                         BlockFrame(subroutines[<<Line[2]>>], Top.depth + 1)>>
                  /\ diag' = diag
    /\ UNCHANGED <<pc, fs, lines, subroutines, result>>
    /\ UNCHANGED mainvars

\* _handle_call up to the expansion of the body, lines 2067-2088
CallEnter ==
    /\ AtLine
    /\ LineKind(Line) = "call"
    /\ LET args == Rest(Line, 3)
       IN  CASE ~IsWord(Line[2]) ->
                  /\ stack' = Advance(<< >>)
                  /\ diag' = Append(diag, "Error: Invalid call syntax")
                  /\ variables' = variables
             [] IsWord(Line[2]) /\ <<Line[2]>> \notin DOMAIN subroutines ->
                  /\ stack' = Advance(<< >>)
                  /\ diag' = Append(diag, "Error: Subroutine not found")
                  /\ variables' = variables
             [] OTHER ->
                  /\ variables' = BindArgs(variables, args, 1)
                  /\ stack' = stack \o <<CallFrame(Line[2], args, Top.depth, variables),
                                         BlockFrame(subroutines[<<Line[2]>>], Top.depth + 1)>>
                  /\ diag' = diag
    /\ UNCHANGED <<pc, fs, lines, subroutines, result>>
    /\ UNCHANGED mainvars

\* lines 2090-2097: the body has returned, the arguments are restored
CallReturn ==
    /\ Returning
    /\ Len(stack) >= 3
    /\ Below.t = "call"
    /\ variables' = RestoreArgs(variables, Below.old_args, Len(Below.args), 1)
    /\ stack' = ReplaceTop(Pop(2), Deliver(stack[Len(stack) - 2], Returned,
                                           stack[Len(stack) - 2].i + 1))
    /\ diag' = diag \o ReturnDiag
    /\ UNCHANGED <<pc, fs, lines, subroutines, result>>
    /\ UNCHANGED mainvars

\* line 1728 and line 2210: the outermost _expand_block returns the stream
Return ==
    /\ Returning
    /\ Len(stack) = 1
    /\ result' = Returned
    /\ stack' = << >>
    /\ pc' = "done"
    /\ UNCHANGED <<fs, lines, variables, subroutines, diag>>
    /\ UNCHANGED mainvars

(***************************************************************************)
(* CommandParser.  A parsed command is [cmd, args, opts]; parse_command    *)
(* gives [err, none, value]: err for a ValueError, none for the None of an *)
(* entry without parts.  An option value is kept as str(value).            *)
(***************************************************************************)
\* per command: the number of required arguments, varargs, and the options
\* with the type of their default
COMMANDS ==
    "connect" :> [args |-> 0, varargs |-> FALSE,
        opts |-> << >>] @@
    "status" :> [args |-> 0, varargs |-> FALSE,
        opts |-> << >>] @@
    "wait" :> [args |-> 0, varargs |-> FALSE,
        opts |-> << >>] @@
    "say" :> [args |-> 1, varargs |-> TRUE,
        opts |-> ("volume" :> [kind |-> "int", default |-> "65535"] @@ "voice" :> [kind |-> "str", default |-> "en-us"] @@ "speed" :> [kind |-> "int", default |-> "150"] @@ "pitch" :> [kind |-> "int", default |-> "50"] @@ "amplitude" :> [kind |-> "int", default |-> "100"] @@ "async" :> [kind |-> "bool", default |-> "False"])] @@
    "volume" :> [args |-> 1, varargs |-> FALSE,
        opts |-> << >>] @@
    "move" :> [args |-> 1, varargs |-> FALSE,
        opts |-> ("speed" :> [kind |-> "int", default |-> "100"] @@ "async" :> [kind |-> "bool", default |-> "False"])] @@
    "turn" :> [args |-> 1, varargs |-> FALSE,
        opts |-> ("async" :> [kind |-> "bool", default |-> "False"])] @@
    "goto" :> [args |-> 2, varargs |-> FALSE,
        opts |-> ("angle" :> [kind |-> "int", default |-> "0"] @@ "async" :> [kind |-> "bool", default |-> "False"])] @@
    "head" :> [args |-> 0, varargs |-> TRUE,
        opts |-> ("angle" :> [kind |-> "str", default |-> "middle"] @@ "async" :> [kind |-> "bool", default |-> "False"])] @@
    "lift" :> [args |-> 1, varargs |-> FALSE,
        opts |-> ("duration" :> [kind |-> "float", default |-> "1.0"] @@ "async" :> [kind |-> "bool", default |-> "False"])] @@
    "lights" :> [args |-> 0, varargs |-> FALSE,
        opts |-> ("color" :> [kind |-> "str", default |-> "blue"] @@ "colors" :> [kind |-> "str", default |-> "None"])] @@
    "ir" :> [args |-> 0, varargs |-> FALSE,
        opts |-> ("enable" :> [kind |-> "bool", default |-> "True"])] @@
    "cliff" :> [args |-> 0, varargs |-> FALSE,
        opts |-> ("enable" :> [kind |-> "bool", default |-> "True"] @@ "reaction" :> [kind |-> "str", default |-> "backup"])] @@
    "calibrate" :> [args |-> 0, varargs |-> FALSE,
        opts |-> ("head" :> [kind |-> "bool", default |-> "True"] @@ "lift" :> [kind |-> "bool", default |-> "True"])] @@
    "animate" :> [args |-> 1, varargs |-> FALSE,
        opts |-> ("async" :> [kind |-> "bool", default |-> "False"])] @@
    "anim-group" :> [args |-> 1, varargs |-> FALSE,
        opts |-> ("async" :> [kind |-> "bool", default |-> "False"])] @@
    "list-anims" :> [args |-> 0, varargs |-> FALSE,
        opts |-> ("search" :> [kind |-> "str", default |-> "None"])] @@
    "list-groups" :> [args |-> 0, varargs |-> FALSE,
        opts |-> ("search" :> [kind |-> "str", default |-> "None"])] @@
    "list-sounds" :> [args |-> 0, varargs |-> FALSE,
        opts |-> ("search" :> [kind |-> "str", default |-> "None"])] @@
    "play-sound" :> [args |-> 0, varargs |-> TRUE,
        opts |-> ("name" :> [kind |-> "str", default |-> "None"] @@ "file" :> [kind |-> "str", default |-> "None"] @@ "async" :> [kind |-> "bool", default |-> "False"])] @@
    "camera" :> [args |-> 0, varargs |-> FALSE,
        opts |-> ("output" :> [kind |-> "str", default |-> "camera_capture.jpg"])] @@
    "battery" :> [args |-> 0, varargs |-> FALSE,
        opts |-> ("mode" :> [kind |-> "str", default |-> "icon"] @@ "duration" :> [kind |-> "float", default |-> "5.0"])] @@
    "screen" :> [args |-> 1, varargs |-> TRUE,
        opts |-> ("duration" :> [kind |-> "float", default |-> "5.0"] @@ "size" :> [kind |-> "int", default |-> "12"] @@ "x" :> [kind |-> "int", default |-> "5"] @@ "y" :> [kind |-> "int", default |-> "10"])]

None == [cmd |-> "None", args |-> << >>, opts |-> << >>]

\* the tokens of the model that hold a '=': options, and the operators of
\* conditions
OptTokens == {"async=true", "async=maybe", "volume=5", "volume=loud", "bogus=1"}

HasEq(t) == t \in OptTokens \cup {"=", "==", "!=", ">=", "<="}

\* part.split('=', 1)
OptKey(t) ==
    CASE t \in {"async=true", "async=maybe"} -> "async"
      [] t \in {"volume=5", "volume=loud"} -> "volume"
      [] t = "bogus=1" -> "bogus"
      [] t = "!=" -> "!"
      [] t = ">=" -> ">"
      [] t = "<=" -> "<"
      [] OTHER -> ""

OptValue(t) ==
    CASE t = "async=true" -> "true"
      [] t = "async=maybe" -> "maybe"
      [] t = "volume=5" -> "5"
      [] t = "volume=loud" -> "loud"
      [] t = "bogus=1" -> "1"
      [] t = "==" -> "="
      [] OTHER -> ""

\* a _parse_bool that takes every word for true
parse_bool_any(value) == [err |-> FALSE, value |-> "True"]

\* _parse_bool: [err, value]
parse_bool(value) ==
    IF Lower(value) \in {"true", "yes", "on", "1"} THEN [err |-> FALSE, value |-> "True"]
    ELSE IF Lower(value) \in {"false", "no", "off", "0"} THEN [err |-> FALSE, value |-> "False"]
    ELSE [err |-> TRUE, value |-> ""]

\* lines 1477-1486: the value of an option by the type of its default
OptParse(kind, value) ==
    CASE kind = "bool" -> parse_bool(value)
      [] kind \in {"int", "float"} -> [err |-> ~IsDigits(value), value |-> value]
      [] OTHER -> [err |-> FALSE, value |-> value]

ParseError == [err |-> TRUE, none |-> FALSE, value |-> None]

\* the loop of lines 1470-1500 and the checks after it
RECURSIVE ParseParts(_, _, _, _, _)
ParseParts(cmd, parts, i, args, opts) ==
    LET info == COMMANDS[cmd]
    IN  IF i > Len(parts)
        THEN IF Len(args) < info.args THEN ParseError
             ELSE [err |-> FALSE, none |-> FALSE,
                   value |-> [cmd |-> cmd, args |-> args,
                              opts |-> [k \in DOMAIN info.opts |->
                                          IF k \in DOMAIN opts THEN opts[k]
                                          ELSE info.opts[k].default]]]
        ELSE IF HasEq(parts[i])
             THEN IF OptKey(parts[i]) \notin DOMAIN info.opts THEN ParseError
                  ELSE LET v == OptParse(info.opts[OptKey(parts[i])].kind, OptValue(parts[i]))
                       IN  IF v.err THEN ParseError
                           ELSE ParseParts(cmd, parts, i + 1, args,
                                           Bind(opts, OptKey(parts[i]), v.value))
        ELSE IF Len(args) < info.args \/ info.varargs
             THEN ParseParts(cmd, parts, i + 1, Append(args, parts[i]), opts)
        ELSE ParseError

\* shlex.split of an entry: its tokens that are not empty
Parts(cmd_str) == SelectSeq(cmd_str, LAMBDA t : t # "")

parse_command(cmd_str) ==
    LET parts == Parts(cmd_str)
    IN  IF parts = << >> THEN [err |-> FALSE, none |-> TRUE, value |-> None]
        ELSE IF parts[1] \notin DOMAIN COMMANDS THEN ParseError
        ELSE ParseParts(parts[1], parts, 2, << >>, << >>)

(***************************************************************************)
(* main after load_script_file has returned (pc = "done"), and the         *)
(* CozmoController it drives.  A background thread is a number; alive      *)
(* says whether it still runs.                                             *)
(***************************************************************************)
offline_commands == {"list-anims", "list-groups", "list-sounds", "help"}

\* line 2263: any() stops at the first command that needs the robot, and
\* raises TypeError at a None that it reaches: "offline", "online", "raise"
RECURSIVE NeedsConnection(_, _)
NeedsConnection(cs, k) ==
    IF k > Len(cs) THEN "offline"
    ELSE IF cs[k] = None THEN "raise"
    ELSE IF cs[k].cmd \notin offline_commands THEN "online"
    ELSE NeedsConnection(cs, k + 1)

\* execute_command for the commands of the model: whether it raises,
\* whether it starts a background thread (say_text, lines 404-406), and
\* what it can return: say_text returns True once connected (lines 408-410),
\* set_volume False when the send fails (lines 329-336)
ExecOutcome(c, conn) ==
    CASE c.cmd = "say" -> [raises |-> FALSE, spawn |-> conn /\ c.opts["async"] = "True",
                           returns |-> IF conn THEN {"True"} ELSE {"False"}]
      [] c.cmd = "volume" -> [raises |-> ~IsDigits(c.args[1]), spawn |-> FALSE,
                              returns |-> IF conn THEN {"True", "False"} ELSE {"False"}]
      [] OTHER -> [raises |-> FALSE, spawn |-> FALSE, returns |-> {"True", "False"}]

\* line 264 and line 284
AliveOnly(ts) == SelectSeq(ts, LAMBDA t : alive[t])

\* a wait for no thread at all
WaitListNone(ts) == << >>

\* line 274: threads = list(self._bg_threads)
WaitList(ts) == ts

\* lines 2246-2247: nothing to run
NoCommands ==
    /\ pc = "done"
    /\ result = << >>
    /\ rc' = 1
    /\ pc' = "exit"
    /\ UNCHANGED <<commands, executed, cli, connected, bg_threads, alive, threads, joining,
                   timed_out, attempt>>
    /\ UNCHANGED loadvars

\* the parse loop going on after an entry that does not parse
ParseCommandLenient ==
    /\ pc = "done"
    /\ Len(commands) < Len(result)
    /\ commands' = Append(commands, parse_command(result[Len(commands) + 1]).value)
    /\ UNCHANGED <<pc, rc, executed, cli, connected, bg_threads, alive, threads, joining,
                   timed_out, attempt>>
    /\ UNCHANGED loadvars

\* lines 2252-2259: the next entry is parsed
ParseCommand ==
    /\ pc = "done"
    /\ Len(commands) < Len(result)
    /\ LET p == parse_command(result[Len(commands) + 1])
       IN  IF p.err
           THEN rc' = 1 /\ pc' = "exit" /\ commands' = commands
           ELSE rc' = rc /\ pc' = pc /\ commands' = Append(commands, p.value)
    /\ UNCHANGED <<executed, cli, connected, bg_threads, alive, threads, joining, timed_out, attempt>>
    /\ UNCHANGED loadvars

\* lines 2262-2276: all entries are parsed
Dispatch ==
    /\ pc = "done"
    /\ result # << >>
    /\ Len(commands) = Len(result)
    /\ pc' = CASE NeedsConnection(commands, 1) = "raise" -> "crashed"
               [] NeedsConnection(commands, 1) = "offline" -> "offline"
               [] OTHER -> "connect"
    /\ UNCHANGED mainvars
    /\ UNCHANGED loadvars

\* lines 2270-2271: an offline command is executed without a connection
ExecuteOffline ==
    /\ pc = "offline"
    /\ Len(executed) < Len(commands)
    /\ \E ret \in ExecOutcome(commands[Len(executed) + 1], FALSE).returns :
          executed' = Append(executed, [k |-> Len(executed) + 1, ret |-> ret])
    /\ UNCHANGED <<pc, commands, rc, cli, connected, bg_threads, alive, threads, joining,
                   timed_out, attempt>>
    /\ UNCHANGED loadvars

\* line 2272
ReturnOffline ==
    /\ pc = "offline"
    /\ Len(executed) = Len(commands)
    /\ rc' = 0
    /\ pc' = "exit"
    /\ UNCHANGED <<commands, executed, cli, connected, bg_threads, alive, threads, joining,
                   timed_out, attempt>>
    /\ UNCHANGED loadvars

\* line 86: connect(self, retries: int = 3, ...)
retries == 3

\* the threads that _wait_for_bg_threads finds alive
Waiting == {t \in 1..Len(alive) : alive[t] /\ \E k \in 1..Len(bg_threads) : bg_threads[k] = t}

\* connect() returns to the constructor (lines 83-84 and 2276-2280) or to
\* execute_command (lines 1529-1530)
ConnectReturns(ret) ==
    IF pc = "connect"
    THEN /\ executed' = executed
         /\ IF connected' THEN pc' = "exec" /\ rc' = rc ELSE pc' = "exit" /\ rc' = 1
    ELSE /\ executed' = [executed EXCEPT ![Len(executed)].ret = ret]
         /\ pc' = "exec"
         /\ rc' = rc

\* lines 88-141: one attempt of connect().  It connects; or the validation
\* fails and disconnect() waits for the background threads, each of which
\* finishes or has its join time out, and drops the client; or it raises,
\* before or after the new client is assigned, and nothing else changes
ConnectAttempt ==
    /\ pc \in {"connect", "reconnect"}
    /\ attempt < retries
    /\ \/ /\ cli' = "Client"
          /\ connected' = TRUE
          /\ attempt' = 0
          /\ ConnectReturns("True")
          /\ UNCHANGED <<bg_threads, alive, threads, joining, timed_out>>
       \/ /\ \E T \in SUBSET Waiting :
                /\ alive' = [t \in 1..Len(alive) |-> alive[t] /\ (t \in T \/ t \notin Waiting)]
                /\ timed_out' = timed_out \cup T
                /\ bg_threads' = SelectSeq(bg_threads, LAMBDA t : t \in T)
          /\ cli' = "None"
          /\ connected' = FALSE
          /\ attempt' = attempt + 1
          /\ UNCHANGED <<pc, rc, executed, threads, joining>>
       \/ /\ cli' \in {cli, "Client"}
          /\ attempt' = attempt + 1
          /\ UNCHANGED <<pc, rc, executed, connected, bg_threads, alive, threads, joining,
                         timed_out>>
    /\ UNCHANGED commands
    /\ UNCHANGED loadvars

\* line 155: the attempts are used up and connect() returns False
ConnectFailed ==
    /\ pc \in {"connect", "reconnect"}
    /\ attempt = retries
    /\ attempt' = 0
    /\ UNCHANGED <<cli, connected>>
    /\ ConnectReturns("False")
    /\ UNCHANGED <<commands, bg_threads, alive, threads, joining, timed_out>>
    /\ UNCHANGED loadvars

\* lines 1529-1530: the command connect calls controller.connect()
ExecuteConnect ==
    /\ pc = "exec"
    /\ Len(executed) < Len(commands)
    /\ commands[Len(executed) + 1] # None
    /\ commands[Len(executed) + 1].cmd = "connect"
    /\ executed' = Append(executed, [k |-> Len(executed) + 1, ret |-> "pending"])
    /\ pc' = "reconnect"
    /\ attempt' = 0
    /\ UNCHANGED <<commands, rc, cli, connected, bg_threads, alive, threads, joining,
                   timed_out>>
    /\ UNCHANGED loadvars

\* an execute loop that a command that returns False ends
ExecuteUntilFailure ==
    /\ pc = "exec"
    /\ Len(executed) < Len(commands)
    /\ commands[Len(executed) + 1] = None \/ commands[Len(executed) + 1].cmd # "connect"
    /\ LET k == Len(executed) + 1
           c == commands[k]
           o == IF c = None THEN [raises |-> TRUE, spawn |-> FALSE, returns |-> {}]
                ELSE ExecOutcome(c, connected /\ cli # "None")
           t == Len(alive) + 1
       IN  /\ \E ret \in (IF o.raises THEN {"raised"} ELSE o.returns) :
                 /\ executed' = IF c = None THEN executed
                                 ELSE Append(executed, [k |-> k, ret |-> ret])
                 /\ pc' = IF ret # "True" THEN "finally" ELSE pc
           /\ IF o.spawn
              THEN /\ bg_threads' = Append(AliveOnly(bg_threads), t)
                   /\ alive' = Append(alive, TRUE)
              ELSE UNCHANGED <<bg_threads, alive>>
    /\ UNCHANGED <<commands, rc, cli, connected, threads, joining, timed_out, attempt>>
    /\ UNCHANGED loadvars

\* lines 2286-2290 and 2293-2296: the next command is executed; what it
\* raises is caught and ends the loop
Execute ==
    /\ pc = "exec"
    /\ Len(executed) < Len(commands)
    /\ commands[Len(executed) + 1] = None \/ commands[Len(executed) + 1].cmd # "connect"
    /\ LET k == Len(executed) + 1
           c == commands[k]
           o == IF c = None THEN [raises |-> TRUE, spawn |-> FALSE, returns |-> {}]
                ELSE ExecOutcome(c, connected /\ cli # "None")
           t == Len(alive) + 1
       IN  /\ \E ret \in (IF o.raises THEN {"raised"} ELSE o.returns) :
                 executed' = IF c = None THEN executed
                             ELSE Append(executed, [k |-> k, ret |-> ret])
           /\ pc' = IF o.raises THEN "finally" ELSE pc
           /\ IF o.spawn
              THEN /\ bg_threads' = Append(AliveOnly(bg_threads), t)
                   /\ alive' = Append(alive, TRUE)
              ELSE UNCHANGED <<bg_threads, alive>>
    /\ UNCHANGED <<commands, rc, cli, connected, threads, joining, timed_out, attempt>>
    /\ UNCHANGED loadvars

\* lines 2291-2292: KeyboardInterrupt while the commands are executed
Interrupt ==
    /\ pc \in {"exec", "reconnect"}
    /\ pc' = "finally"
    /\ attempt' = 0
    /\ executed' = IF pc = "reconnect" THEN [executed EXCEPT ![Len(executed)].ret = "raised"]
                   ELSE executed
    /\ UNCHANGED <<commands, rc, cli, connected, bg_threads, alive, threads, joining,
                   timed_out>>
    /\ UNCHANGED loadvars

\* line 2287: the loop has run through the commands
ExecuteDone ==
    /\ pc = "exec"
    /\ Len(executed) = Len(commands)
    /\ pc' = "finally"
    /\ UNCHANGED mainvars
    /\ UNCHANGED loadvars

\* lines 2297-2300 and 271-278: disconnect() starts to wait
DisconnectWait ==
    /\ pc = "finally"
    /\ threads' = WaitList(bg_threads)
    /\ joining' = 1
    /\ pc' = IF WaitList(bg_threads) = << >> THEN "stop" ELSE "join"
    /\ UNCHANGED <<commands, executed, rc, cli, connected, bg_threads, alive, timed_out, attempt>>
    /\ UNCHANGED loadvars

\* lines 280-281: thread.join(timeout) returns, the thread having finished
\* or the timeout having elapsed
Join ==
    /\ pc = "join"
    /\ joining <= Len(threads)
    /\ timed_out' = IF alive[threads[joining]] THEN timed_out \cup {threads[joining]}
                    ELSE timed_out
    /\ joining' = joining + 1
    /\ UNCHANGED <<pc, commands, executed, rc, cli, connected, bg_threads, alive, threads,
                   attempt>>
    /\ UNCHANGED loadvars

\* lines 283-284
JoinDone ==
    /\ pc = "join"
    /\ joining > Len(threads)
    /\ bg_threads' = AliveOnly(bg_threads)
    /\ pc' = "stop"
    /\ UNCHANGED <<commands, executed, rc, cli, connected, alive, threads, joining, timed_out, attempt>>
    /\ UNCHANGED loadvars

\* lines 244-252 and 2302: the client is stopped and dropped, main returns
Stop ==
    /\ pc = "stop"
    /\ cli' = "None"
    /\ connected' = FALSE
    /\ rc' = 0
    /\ pc' = "exit"
    /\ UNCHANGED <<commands, executed, bg_threads, alive, threads, joining, timed_out, attempt>>
    /\ UNCHANGED loadvars

\* a background thread comes to its end (lines 256-260)
ThreadFinish ==
    /\ pc \in {"exec", "reconnect", "finally", "join", "stop"}
    /\ \E t \in 1..Len(alive) :
          /\ alive[t]
          /\ alive' = [alive EXCEPT ![t] = FALSE]
    /\ UNCHANGED <<pc, commands, executed, rc, cli, connected, bg_threads, threads, joining,
                   timed_out, attempt>>
    /\ UNCHANGED loadvars

Next ==
    \/ LoadScript
    \/ ExtractSubroutines
    \/ SkipLine
    \/ Include
    \/ Set
    \/ UnexpectedCloser
    \/ Literal
    \/ ForEnter
    \/ ForIter
    \/ ForIterEnd
    \/ ForExit
    \/ WhileEnter
    \/ WhileIter
    \/ WhileIterEnd
    \/ WhileExit
    \/ IfEnter
    \/ IfReturn
    \/ CallEnter
    \/ CallReturn
    \/ Return
    \/ NoCommands
    \/ ParseCommand
    \/ Dispatch
    \/ ExecuteOffline
    \/ ReturnOffline
    \/ ConnectAttempt
    \/ ConnectFailed
    \/ ExecuteConnect
    \/ Execute
    \/ Interrupt
    \/ ExecuteDone
    \/ DisconnectWait
    \/ Join
    \/ JoinDone
    \/ Stop
    \/ ThreadFinish

Spec == Init /\ [][Next]_vars

(***************************************************************************)
(* Properties.                                                             *)
(***************************************************************************)
Script == fs[TopFile]

IsPrefix(u, v) == Len(u) <= Len(v) /\ SubSeq(v, 1, Len(u)) = u

Frames(t) == {p \in 1..Len(stack) : stack[p].t = t}

Keywords == {"for", "endfor", "while", "endwhile", "if", "else", "endif",
             "def", "enddef", "call", "set", "include"}

\* the first whitespace-delimited token of an output line is a keyword
LeadsWithKeyword(line) ==
    LET ne == SelectSeq(line, LAMBDA t : t # "")
    IN  ne # << >> /\ ne[1] \in Keywords

\* C1: no line of the stream that preprocess / load_script_file returns has
\* a control keyword as its first token.
C1_NoKeywordInOutput ==
    pc = "done" => \A k \in 1..Len(result) : ~LeadsWithKeyword(result[k])

\* C2: within one expansion of a block the result only grows at its end
\* while the cursor only moves forward, so what an earlier line produced
\* precedes what a later line produces (and likewise for the iterations of
\* a loop); a script of literal, blank and comment lines expands to its
\* literal lines in source order.
C2_Step ==
    /\ \A p \in 1..Len(stack) :
          (p <= Len(stack') /\ stack[p].t = "block" /\ stack'[p].t = "block") =>
              /\ IsPrefix(stack[p].res, stack'[p].res)
              /\ stack'[p].i >= stack[p].i
              /\ stack'[p].res # stack[p].res => stack'[p].i > stack[p].i
    /\ \A p \in 1..Len(stack) :
          (p <= Len(stack') /\ stack[p].t \in {"for", "while"} /\ stack'[p].t = stack[p].t) =>
              /\ IsPrefix(stack[p].result, stack'[p].result)
              /\ stack'[p].iteration >= stack[p].iteration
    /\ (pc' = "done" /\ pc = "expand") => result' = stack[1].res

C2_PlainExact ==
    (pc = "done" /\ Script \in PlainScripts) =>
        result = SelectSeq(Script, LAMBDA l : l # << >> /\ l[1] # "#")

C2_OrderPreserved == [](C2_PlainExact) /\ [][C2_Step]_vars

C2_Witness ==
    /\ pc = "done"
    /\ Script \in PlainScripts
    /\ Len(result) = 3
    /\ result[1] # result[2]

\* C3: for x in A..B step S with S >= 1 and A <= B around k literal lines
\* gives k * ceil((B-A+1)/S) lines, the body once for each of A, A+S, ...
\* in ascending order, with $x replaced by the value.
ReplaceTok(line, ref, val) == [j \in 1..Len(line) |-> IF line[j] = ref THEN val ELSE line[j]]

\* the for line of the innermost _handle_for
ForLine == Below.ls[Below.i]

\* _handle_for has left its loop
ForDone(f) == f.k > Len(f.values) \/ LimitReached(f.iteration)

Min(m, n) == IF m <= n THEN m ELSE n

C3_Case ==
    /\ Running
    /\ Top.t = "for"
    /\ ForDone(Top)
    /\ ForLine \in {RangeHeader(a, b, st) : a \in RangeEnds, b \in RangeEnds,
                                            st \in 1..(MaxStep + 1)}
    /\ RangeLo(ForLine[4]) <= RangeHi(ForLine[4])
    /\ \A q \in 1..Len(Top.block) : Top.block[q] \in {Lits[m] : m \in 1..Len(Lits)}

\* the body, once for each of the first n values
C3_Output(n) ==
    LET a == RangeLo(ForLine[4])
        st == IF Len(ForLine) = 6 THEN NumOf[ForLine[6]] ELSE 1
        k == Len(Top.block)
    IN  /\ Len(Top.result) = k * n
        /\ \A m \in 1..n : \A q \in 1..k :
              Top.result[(m - 1) * k + q]
                  = ReplaceTok(Top.block[q], "$x", ToString(a + (m - 1) * st))

C3_Count ==
    LET a == RangeLo(ForLine[4])
        b == RangeHi(ForLine[4])
        st == IF Len(ForLine) = 6 THEN NumOf[ForLine[6]] ELSE 1
    IN  ((b - a + 1) + (st - 1)) \div st

SameBinding(s1, s2, n) ==
    /\ (n \in DOMAIN s1) = (n \in DOMAIN s2)
    /\ n \in DOMAIN s1 => s1[n] = s2[n]

C4_ForRestoresVar ==
    (Running /\ Top.t = "for") => SameBinding(variables, Top.pre, Top.var)

C4_Witness ==
    /\ Running
    /\ Top.t = "for"
    /\ ForDone(Top)
    /\ Top.iteration >= 2
    /\ Top.var \in DOMAIN Top.pre
    /\ \E q \in 1..Len(Top.block) : Top.block[q] = <<"set", Top.var, "9">>
    /\ \E q \in 1..Len(Top.block) : StartsWith(Top.block[q], "for") /\ Top.block[q][2] = Top.var

\* C5: once a for or while loop has expanded its body at least once, a
\* variable that the body sets under a name other than the induction
\* variable holds the value of its last assignment, between iterations and
\* when the loop has ended; the step by which the loop returns changes no
\* variable.
LastOf(block, line) ==
    LET S == {q \in 1..Len(block) : block[q] = line}
    IN  IF S = {} THEN 0 ELSE CHOOSE q \in S : \A r \in S : r <= q

Count(block, line) == Cardinality({q \in 1..Len(block) : block[q] = line})

SetY == <<"set", "y", "$x">>

SetX == <<"set", "x", "9">>

SetN == <<"set", "n", "$n", "-", "1">>

C5_ForCase ==
    /\ Running
    /\ Top.t = "for"
    /\ Top.var = "x"
    /\ Top.iteration >= 1
    /\ LastOf(Top.block, SetY) # 0

C5_WhileCase ==
    /\ Running
    /\ Top.t = "while"
    /\ Top.iteration >= 1

C5_State ==
    /\ C5_ForCase =>
          /\ "y" \in DOMAIN variables
          /\ variables["y"] =
                IF \E q \in 1..LastOf(Top.block, SetY) : Top.block[q] = SetX
                THEN <<"9">>
                ELSE Top.values[Top.k - 1]
    /\ (C5_WhileCase /\ LastOf(Top.block, SetX) # 0) =>
          /\ "x" \in DOMAIN variables
          /\ variables["x"] = <<"9">>
    /\ (C5_WhileCase /\ LastOf(Top.block, SetN) # 0 /\ "n" \in DOMAIN Top.pre) =>
          /\ "n" \in DOMAIN variables
          /\ variables["n"] =
                <<ToString(NumOf[Top.pre["n"][1]] - Top.iteration * Count(Top.block, SetN))>>

C5_Exit ==
    (Running /\ Top.t \in {"for", "while"} /\ Len(stack') < Len(stack)) =>
        variables' = variables

C5_SetInLoopPersists == [](C5_State) /\ [][C5_Exit]_vars

C5_Witness ==
    /\ C5_ForCase
    /\ ForDone(Top)
    /\ Top.iteration = 2
    /\ "y" \notin DOMAIN Top.pre
    /\ variables["y"] = <<"2">>

\* C6: when the branch of an if with a matching endif has been expanded,
\* what it gave is the expansion of the then-branch if the condition held
\* and of the else-branch (empty without an else) if not, and the store is
\* the store before the if changed by the sets of that branch only;
\* if 5 > 3 / say Yes / else / say No / endif gives ["say Yes"].
IfParent == stack[Len(stack) - 2]

IfLine == IfParent.ls[IfParent.i]

FirstBare(ls, from, kw) ==
    LET S == {j \in from..Len(ls) : IsBare(ls[j], kw)}
    IN  IF S = {} THEN 0 ELSE CHOOSE j \in S : \A r \in S : j <= r

C6_End == FirstBare(IfParent.ls, IfParent.i + 1, "endif")

C6_Else ==
    LET e == FirstBare(IfParent.ls, IfParent.i + 1, "else")
    IN  IF e # 0 /\ e < C6_End THEN e ELSE 0

C6_Then == SubSeq(IfParent.ls, IfParent.i + 1, (IF C6_Else # 0 THEN C6_Else ELSE C6_End) - 1)

C6_Otherwise == IF C6_Else = 0 THEN << >> ELSE SubSeq(IfParent.ls, C6_Else + 1, C6_End - 1)

C6_Holds == evaluate_condition(Below.pre, Rest(IfLine, 2)).b

C6_Branch == IF C6_Holds THEN C6_Then ELSE C6_Otherwise

\* a branch of literals and sets, line by line
RECURSIVE FlatRun(_, _, _, _)
FlatRun(ls, q, store, out) ==
    IF q > Len(ls) THEN [vars |-> store, out |-> out]
    ELSE IF LineKind(ls[q]) = "set"
         THEN FlatRun(ls, q + 1, handle_set(ls[q], store).vars, out)
    ELSE IF LineKind(ls[q]) = "literal"
         THEN FlatRun(ls, q + 1, store, Append(out, expand_variables(store, ls[q])))
    ELSE FlatRun(ls, q + 1, store, out)

C6_Case ==
    /\ Returning
    /\ Len(stack) >= 3
    /\ Below.t = "if"
    /\ ~DepthExceeded(Top.depth)
    /\ C6_End # 0
    \* no if inside the construct, and one else at most
    /\ \A j \in (IfParent.i + 1)..(C6_End - 1) :
          /\ ~StartsWith(IfParent.ls[j], "if")
          /\ IsBare(IfParent.ls[j], "else") => j = C6_Else
    /\ \A q \in 1..Len(C6_Branch) : LineKind(C6_Branch[q]) \in {"skip", "set", "literal"}

C6_IfOneBranch ==
    /\ C6_Case =>
          LET r == FlatRun(C6_Branch, 1, Below.pre, << >>)
          IN  /\ Top.res = r.out
              /\ variables = r.vars
    /\ (pc = "done" /\ Script = IfExample) => result = << <<"say", "Yes">> >>

C6_Witness ==
    /\ C6_Case
    /\ C6_Holds
    /\ SetX \in {C6_Then[q] : q \in 1..Len(C6_Then)}
    /\ <<"set", "k", "2">> \in {C6_Otherwise[q] : q \in 1..Len(C6_Otherwise)}
    /\ "k" \notin DOMAIN variables
    /\ variables["x"] = <<"9">>

\* C7: a def block leaves nothing at its place and its body is stored as
\* written; a call of the subroutine gives the body expanded against the
\* store at the call (with the arguments bound), so that two calls around
\* a set of a variable the body refers to differ by that variable.
Range(q) == {q[j] : j \in 1..Len(q)}

C7_Scripts == Generated \cup {TwoCalls}

C7_DefSite ==
    (pc \in {"expand", "done"} /\ Script \in C7_Scripts) =>
        /\ lines = SubSeq(Script, Len(Defs) + 1, Len(Script))
        /\ DOMAIN subroutines = {<<"greet">>}
        /\ subroutines[<<"greet">>] = <<Defs[2]>>
        /\ (pc = "done" /\ \A j \in 1..Len(Script) : ~StartsWith(Script[j], "call")) =>
              \A j \in 1..Len(result) : "Hello" \notin Range(result[j])

C7_Case ==
    /\ Returning
    /\ Len(stack) >= 3
    /\ Below.t = "call"
    /\ Below.name = "greet"
    /\ ~DepthExceeded(Top.depth)
    /\ Script \in C7_Scripts

\* the store at the call, with the argument of the call
C7_CallStore ==
    IF Below.args = << >> THEN Below.pre ELSE Bind(Below.pre, "1", <<Below.args[1]>>)

C7_CallExpandsBody ==
    /\ C7_DefSite
    /\ C7_Case => Top.res = <<expand_variables(C7_CallStore, Defs[2])>>
    /\ (pc = "done" /\ Script = TwoCalls) =>
          result = << <<"say", "Hello", "a", "1">>, <<"say", "Hello", "b", "2">>,
                      <<"say", "Hello", "", "2">> >>

C7_Witness ==
    /\ C7_Case
    /\ Script = TwoCalls
    /\ Below.args = <<"b">>
    /\ Top.res = << <<"say", "Hello", "b", "2">> >>

\* C8: no loop expands its body more than max_iterations times; a while
\* whose guard always holds gives its body max_iterations times and the
\* line after endwhile follows; each return of the body is counted.
C8_Body == SubSeq(Script, 3, Len(Script) - 2)

C8_State ==
    /\ \A p \in Frames("while") : stack[p].iteration <= max_iterations
    /\ (pc = "done" /\ Script \in EndlessScripts) =>
          LET k == Len(C8_Body)
          IN  /\ Len(result) = k * max_iterations + 1
              /\ \A m \in 1..max_iterations : \A q \in 1..k :
                    result[(m - 1) * k + q] = C8_Body[q]
              /\ result[Len(result)] = <<"say", "end", "1">>
              /\ "Warning: While loop exceeded max iterations" \in Range(diag)

\* each return of the body to its while loop is counted
C8_Step ==
    \A p \in Frames("while") :
        (Len(stack') = p /\ Len(stack) > p) => stack'[p].iteration = stack[p].iteration + 1

C8_WhileBounded == [](C8_State) /\ [][C8_Step]_vars

C8_Witness ==
    /\ pc = "done"
    /\ Script \in EndlessScripts
    /\ Len(C8_Body) = 2
    /\ Len(result) = 2 * max_iterations + 1

\* C9: no expansion is deeper than MaxDepth + 1; an _expand_block deeper
\* than MaxDepth handles no line, returns nothing and leaves the store as
\* its caller made it; a recursive subroutine gives the lines of the
\* depths up to MaxDepth, and the lines around the call are kept.
C9_State ==
    /\ \A p \in 1..Len(stack) : stack[p].depth <= MaxDepth + 1
    /\ \A p \in Frames("block") :
          DepthExceeded(stack[p].depth) => stack[p].res = << >> /\ stack[p].i = 1
    /\ (Returning /\ DepthExceeded(Top.depth) /\ Below.t = "call") =>
          variables = BindArgs(Below.pre, Below.args, 1)
    /\ (Returning /\ DepthExceeded(Top.depth) /\ Below.t = "for") =>
          variables = Bind(Below.snapshot, Below.var, Below.values[Below.k])

C9_DepthBounded ==
    /\ C9_State
    /\ (pc = "done" /\ Script = Recursive) =>
          /\ result = << <<"say", "before">>, <<"say", "r", "a">> >>
                      \o [m \in 1..(MaxDepth - 1) |-> <<"say", "r", "b">>]
                      \o [m \in 1..MaxDepth |-> <<"say", "after">>]
                      \o << <<"say", "end", "">> >>
          /\ "Error: Maximum nesting depth exceeded" \in Range(diag)
    /\ (pc = "done" /\ Script = MutuallyRecursive) =>
          /\ result = [m \in 1..MaxDepth |-> IF m % 2 = 1 THEN <<"say", "f">> ELSE <<"say", "g">>]
                      \o << <<"say", "end">> >>
          /\ "Error: Maximum nesting depth exceeded" \in Range(diag)

C9_Witness ==
    /\ pc = "done"
    /\ Script = Recursive
    /\ Len(result) = 2 * MaxDepth + 2
    /\ result[Len(result)] = <<"say", "end", "">>

\* C10: when a script that includes a file of an include cycle has been
\* loaded, a diagnostic has been printed.
OnCycle == {"a.txt", "b.txt", "c.txt", TopFile}

C10_Case ==
    /\ pc = "done"
    /\ \E j \in 1..Len(Script) :
          /\ Len(Script[j]) = 2
          /\ Script[j][1] = "include"
          /\ Script[j][2] \in OnCycle

C10_CycleReported == C10_Case => diag # << >>

\* C11: when the top-level block has just handled an include that names
\* the script itself or a file that an earlier include of the script
\* named, the warning of the skipped file has been printed and no line of
\* that file stands in the output more than once.
IncludesBefore(ls, j) ==
    {ls[m][2] : m \in {m2 \in 1..(j - 1) : LineKind(ls[m2]) = "include" /\ Len(ls[m2]) = 2}}

C11_Case ==
    /\ Running
    /\ Len(stack) = 1
    /\ Top.i > 1
    /\ LineKind(Top.ls[Top.i - 1]) = "include"
    /\ Len(Top.ls[Top.i - 1]) = 2
    /\ Top.ls[Top.i - 1][2] \in DOMAIN fs
    /\ Top.ls[Top.i - 1][2] \in {TopFile} \cup IncludesBefore(Top.ls, Top.i - 1)

C11_VisitedSkipped ==
    C11_Case =>
        /\ "Warning: Skipping already included file" \in Range(diag)
        /\ \A l \in Range(Fallback(fs[Top.ls[Top.i - 1][2]])) : Count(Top.res, l) <= 1

\* C12: a script with a for line whose range has a step of 0 is expanded
\* without an exception: the run is never left by a raise.
C12_Case ==
    \E j \in 1..Len(Script) :
        /\ LineKind(Script[j]) = "for"
        /\ ForHeader(Script[j]).raises

C12_MalformedNonFatal == C12_Case => pc # "crashed"

\* C13: when the first line of a script is an if without an endif whose
\* guard fails, the lines after it stand under the if and none of them is
\* expanded: the output is empty.
C13_Case ==
    /\ pc = "done"
    /\ Script # << >>
    /\ LineKind(Script[1]) = "if"
    /\ FirstBare(Script, 2, "endif") = 0
    /\ ~evaluate_condition(<< >>, Rest(Script[1], 2)).exc
    /\ ~evaluate_condition(<< >>, Rest(Script[1], 2)).b

C13_UnclosedBlockToEnd == C13_Case => result = << >>

\* C15: a value that is itself a reference is inserted verbatim by $x and
\* by ${x}: for x in $y / say $x ${x} gives "say $y $y" whatever y holds.
C15_SinglePass ==
    (pc = "done" /\ Script = Rescan) => result = << <<"say", "$y", "$y">> >>

\* C16: whenever _evaluate_condition is about to be called, for the guard
\* of a while or for the condition of an if, the call does not raise.
C16_ConditionNeverRaises ==
    /\ (Running /\ Top.t = "while") => ~evaluate_condition(variables, Top.condition).exc
    /\ (AtLine /\ LineKind(Line) = "if") => ~evaluate_condition(variables, Rest(Line, 2)).exc

\* C17: a well-formed set appends nothing to the output, binds its name to
\* the value of its expression in the store as it is, and changes no other
\* binding; set x 3 / say Count $x gives ["say Count 3"], and set x 2 * 3
\* followed by set y = $x % 4 binds x to 6 and y to 2.
C17_Value(line) ==
    LET after == Rest(line, 3)
        value == IF after # << >> /\ after[1] = "=" THEN Tail(after) ELSE after
    IN  IF value = << >> THEN EmptyStr ELSE value

C17_Step ==
    (AtLine /\ LineKind(Line) = "set" /\ IsWord(Line[2])) =>
        /\ Len(stack') = Len(stack)
        /\ stack'[Len(stack)].res = Top.res
        /\ DOMAIN variables' = DOMAIN variables \cup {Line[2]}
        /\ \A m \in DOMAIN variables \ {Line[2]} : variables'[m] = variables[m]
        /\ variables'[Line[2]] = evaluate_expression(variables, C17_Value(Line)).s

C17_Examples ==
    /\ (pc = "done" /\ Script = SetExample) =>
          /\ result = << <<"say", "Count", "3">> >>
          /\ variables = [m \in {"x"} |-> <<"3">>]
    /\ (pc = "done" /\ Script = Arithmetic) =>
          /\ variables["x"] = <<"6">>
          /\ variables["y"] = <<"2">>
          /\ result[1] = <<"say", "6", "">>

C17_SetBinds == [](C17_Examples) /\ [][C17_Step]_vars

C17_Witness ==
    /\ pc = "done"
    /\ Script = Arithmetic
    /\ variables["y"] = <<"2">>
    /\ Len(result) = 2

\* C18: the step by which a call returns leaves each positional variable
\* 1..n of its n arguments as it was before the call, bound to the same
\* value or unbound, whatever the body did to it.
C18_Step ==
    (Returning /\ Len(stack) >= 3 /\ Below.t = "call") =>
        \A k \in 1..Len(Below.args) : SameBinding(variables', Below.pre, ToString(k))

C18_Example ==
    (pc = "done" /\ Script = Positional) =>
        /\ result = << <<"say", "g", "b", "c">>, <<"say", "f", "9", "">>,
                       <<"say", "end", "5", "">> >>
        /\ variables = [m \in {"1"} |-> <<"5">>]

C18_CallRestoresArgs == [](C18_Example) /\ [][C18_Step]_vars

C18_Witness ==
    /\ pc = "done"
    /\ Script = Positional
    /\ "2" \notin DOMAIN variables
    /\ variables["1"] = <<"5">>
    /\ Len(result) = 3

\* C19: with the def-nesting counter of a script (a def line adds one, an
\* enddef inside a definition takes one away), the lines handed to the
\* expansion are the lines at which the counter is and stays zero, in
\* order and as written, and the body stored for a name is the run of lines
\* between the last outermost def of that name and the line that brings
\* the counter back to zero (or the end of the script).
RECURSIVE Nest(_, _)
Nest(ls, j) ==
    IF j = 0 THEN 0
    ELSE LET c == Nest(ls, j - 1)
         IN  IF StartsWith(ls[j], "def") THEN c + 1
             ELSE IF IsBare(ls[j], "enddef") /\ c > 0 THEN c - 1
             ELSE c

C19_Outside(ls) == {j \in 1..Len(ls) : Nest(ls, j - 1) = 0 /\ Nest(ls, j) = 0}

\* the outermost def lines
C19_Opens(ls) == {j \in 1..Len(ls) : Nest(ls, j - 1) = 0 /\ Nest(ls, j) = 1}

C19_Close(ls, a) ==
    LET S == {e \in (a + 1)..Len(ls) : Nest(ls, e) = 0}
    IN  IF S = {} THEN Len(ls) + 1 ELSE CHOOSE e \in S : \A r \in S : e <= r

RECURSIVE Pick(_, _, _)
Pick(ls, S, j) ==
    IF j > Len(ls) THEN << >>
    ELSE (IF j \in S THEN <<ls[j]>> ELSE << >>) \o Pick(ls, S, j + 1)

\* _extract_subroutines has just returned
C19_Case == pc = "expand" /\ Len(stack) = 1 /\ Top.i = 1

C19_ExtractPartitions ==
    C19_Case =>
        /\ lines = Pick(Script, C19_Outside(Script), 1)
        /\ DOMAIN subroutines = {Rest(Script[a], 2) : a \in C19_Opens(Script)}
        /\ \A a \in C19_Opens(Script) :
              (\A a2 \in C19_Opens(Script) : Script[a2] = Script[a] => a2 <= a) =>
                  subroutines[Rest(Script[a], 2)] = SubSeq(Script, a + 1, C19_Close(Script, a) - 1)

C19_Witness ==
    /\ C19_Case
    /\ Script = NestedDef
    /\ Len(subroutines[<<"f">>]) = 4
    /\ Len(lines) = 4

(***************************************************************************)
(* C14                                                                     *)
(***************************************************************************)
\* the entry j of the expanded stream does not parse (ValueError)
C14_Fails(j) == parse_command(result[j]).err

\* nothing of the robot exists before the parse loop is left
C14_State ==
    pc \in {"start", "extract", "expand", "done"} =>
        /\ executed = << >>
        /\ cli = "None"
        /\ ~connected
        /\ (commands # << >> => pc = "done")

\* the step that leaves the parse loop
C14_Step ==
    (pc = "done" /\ pc' # "done") =>
        IF \E j \in 1..Len(result) : C14_Fails(j)
        THEN /\ pc' = "exit"
             /\ rc' = 1
             /\ executed' = << >>
             /\ cli' = "None"
             /\ ~connected'
        ELSE Len(commands) = Len(result)

\* C14: in main the expanded stream is complete before the first entry is
\* parsed, and the entries are parsed before anything else is done: no
\* controller exists and no command is executed before the parse loop is
\* left, and where an entry does not parse, the last one included, the
\* loop is left by main returning 1 with no controller connected and no
\* command executed; main does nothing after it has returned.
C14_ValidationFirst ==
    /\ [](C14_State)
    /\ [][C14_Step]_vars
    /\ [][pc # "exit"]_vars

\* the last of three entries is the one that does not parse
C14_Witness ==
    /\ pc = "exit"
    /\ Len(result) = 3
    /\ C14_Fails(3)
    /\ ~C14_Fails(1) /\ ~C14_Fails(2)
    /\ Len(commands) = 2
    /\ rc = 1
    /\ executed = << >>

(***************************************************************************)
(* C20                                                                     *)
(***************************************************************************)
\* the background thread t has finished, or a join of it has timed out
C20_Waited(t) == ~alive[t] \/ t \in timed_out

C20_State ==
    /\ pc = "stop" =>
          /\ \A t \in 1..Len(alive) : C20_Waited(t)
          /\ \A k \in 1..Len(bg_threads) : C20_Waited(bg_threads[k])
    /\ (pc = "exit" /\ rc = 0 /\ NeedsConnection(commands, 1) = "online") =>
          /\ ~connected
          /\ cli = "None"

\* the client is left alone while disconnect waits
C20_Step == pc \in {"finally", "join"} => (cli' = cli /\ connected' = connected)

\* C20: disconnect waits before it tears down: while it waits the client
\* is neither stopped nor dropped, and where cli.stop() is about to be
\* called every background thread that an async command has started, the
\* registered ones among them, has finished or has had its join time
\* out; after disconnect has returned connected is False and cli is None.
C20_JoinBeforeStop == [](C20_State) /\ [][C20_Step]_vars

\* disconnect has returned after two async commands, the thread of the
\* first had finished and the join of the second has timed out
C20_Witness ==
    /\ pc = "exit"
    /\ rc = 0
    /\ alive = <<FALSE, TRUE>>
    /\ threads = <<1, 2>>
    /\ timed_out = {2}
    /\ bg_threads = <<2>>
    /\ cli = "None"
    /\ ~connected

(***************************************************************************)
(* C21                                                                     *)
(***************************************************************************)
\* the entry that the parse loop of main is at, split
C21_Parts == Parts(result[Len(commands) + 1])

\* the positional arguments and the options of the entry
C21_Args(parts) == {i \in 2..Len(parts) : ~HasEq(parts[i])}

C21_Opts(parts) == {i \in 2..Len(parts) : HasEq(parts[i])}

\* the entry is malformed in one of the five ways
C21_Malformed(parts) ==
    \/ parts[1] \notin DOMAIN COMMANDS
    \/ /\ parts[1] \in DOMAIN COMMANDS
       /\ LET info == COMMANDS[parts[1]]
              n == Cardinality(C21_Args(parts))
          IN  \/ ~info.varargs /\ n > info.args
              \/ n < info.args
              \/ \E i \in C21_Opts(parts) : OptKey(parts[i]) \notin DOMAIN info.opts
              \/ \E i \in C21_Opts(parts) :
                    /\ OptKey(parts[i]) \in DOMAIN info.opts
                    /\ info.opts[OptKey(parts[i])].kind = "bool"
                    /\ Lower(OptValue(parts[i])) \notin
                          {"true", "false", "yes", "no", "on", "off", "1", "0"}

\* the record of an accepted entry has every option of the schema, the
\* ones that the entry does not give with their defaults
C21_Filled(parts, c) ==
    /\ c.cmd = parts[1]
    /\ DOMAIN c.opts = DOMAIN COMMANDS[c.cmd].opts
    /\ \A k \in DOMAIN c.opts :
          (\A i \in C21_Opts(parts) : OptKey(parts[i]) # k) =>
              c.opts[k] = COMMANDS[c.cmd].opts[k].default

C21_Step ==
    (pc = "done" /\ Len(commands) < Len(result) /\ C21_Parts # << >>) =>
        IF C21_Malformed(C21_Parts)
        THEN pc' = "exit" /\ rc' = 1 /\ commands' = commands
        ELSE commands' # commands =>
                /\ Len(commands') = Len(commands) + 1
                /\ C21_Filled(C21_Parts, commands'[Len(commands')])

\* C21: parse_command raises ValueError for an entry with an unknown
\* command name, with more positional arguments than a command without
\* varargs takes, with fewer than the command requires, with an option
\* that the command does not have or with a boolean option whose value is
\* none of true/false/yes/no/on/off/1/0; the record of an entry that it
\* accepts holds every option of the schema, with the default where the
\* entry gives none.
C21_ParseRejectsAndFills == [][C21_Step]_vars

\* "say hi" was accepted with the defaults, "say hi async=maybe" rejected
C21_Witness ==
    /\ pc = "exit"
    /\ rc = 1
    /\ Len(result) = 2
    /\ result[2] = <<"say", "hi", "async=maybe">>
    /\ Len(commands) = 1
    /\ commands[1].cmd = "say"
    /\ commands[1].opts["async"] = "False"
    /\ commands[1].opts["volume"] = "65535"

(***************************************************************************)
(* C22                                                                     *)
(***************************************************************************)
\* the loop of _expand_block stands at a call of a name that the
\* subroutine table does not have
C22_Case ==
    /\ AtLine
    /\ LineKind(Line) = "call"
    /\ IsWord(Line[2])
    /\ <<Line[2]>> \notin DOMAIN subroutines

C22_Step ==
    C22_Case =>
        /\ variables' = variables
        /\ Len(stack') = Len(stack)
        /\ stack'[Len(stack)] = [Top EXCEPT !.i = Top.i + 1]
        /\ result' = result
        /\ pc' = pc

\* C22: a call of a name that is not in the subroutine table adds no line
\* to the output, leaves the whole store as it is, the positional
\* variables included, and the block goes on with its next line.
C22_UnknownCallSkipped == [][C22_Step]_vars

\* the call of g with two arguments has left $1 = 5 and $2 unbound
C22_Witness ==
    /\ pc = "done"
    /\ Script = UnknownCall
    /\ result = << <<"say", "end", "5", "">> >>
    /\ variables = ("1" :> <<"5">>)
    /\ diag = <<"Error: Subroutine not found">>

(***************************************************************************)
(* C23                                                                     *)
(***************************************************************************)
\* the condition that is about to be evaluated, with its variables expanded
C23_Evaluating == (Running /\ Top.t = "while") \/ (AtLine /\ LineKind(Line) = "if")

C23_Condition == IF Top.t = "while" THEN Top.condition ELSE Rest(Line, 2)

C23_Expanded == expand_variables(variables, C23_Condition)

\* op occurs in the token t of a condition
C23_In(op, t) ==
    CASE op = ">" -> t \in {">", ">="}
      [] op = "<" -> t \in {"<", "<="}
      [] OTHER -> t = op

C23_Has(op, c) == \E j \in 1..Len(c) : C23_In(op, c[j])

\* the first entry of the priority list that occurs in the condition
C23_Op(c) ==
    CASE C23_Has("==", c) -> "=="
      [] ~C23_Has("==", c) /\ C23_Has("!=", c) -> "!="
      [] ~C23_Has("==", c) /\ ~C23_Has("!=", c) /\ C23_Has(">=", c) -> ">="
      [] ~C23_Has("==", c) /\ ~C23_Has("!=", c) /\ ~C23_Has(">=", c) /\ C23_Has("<=", c) -> "<="
      [] OTHER -> IF C23_Has(">", c) THEN ">" ELSE "<"

\* its leftmost occurrence
C23_At(c) ==
    CHOOSE j \in 1..Len(c) :
        /\ C23_In(C23_Op(c), c[j])
        /\ \A m \in 1..Len(c) : C23_In(C23_Op(c), c[m]) => j <= m

C23_Split(c) ==
    Compare(C23_Op(c),
            evaluate_expression(variables, Strip(SubSeq(c, 1, C23_At(c) - 1))),
            evaluate_expression(variables, Strip(SubSeq(c, C23_At(c) + 1, Len(c)))))

\* C23: a condition that holds an operator is split at the leftmost
\* occurrence of the first of ==, !=, >=, <=, >, < that occurs in it after
\* the expansion of its variables, and is the comparison of the two sides:
\* with both < and == it is split at ==, whichever comes first, and with
\* >= it is not split at the > of it.
C23_OperatorPriority ==
    /\ (C23_Evaluating /\ \E op \in Range(operators) : C23_Has(op, C23_Expanded)) =>
          /\ evaluate_condition(variables, C23_Condition) = C23_Split(C23_Expanded)
          /\ (C23_Has("==", C23_Expanded) => C23_Op(C23_Expanded) = "==")
          /\ (C23_Has(">=", C23_Expanded) => C23_Op(C23_Expanded) # ">")
    /\ (pc = "done" /\ Script = OperatorPriority) => result = << <<"say", "Yes">>, SayHi >>

\* "b < a == b < a" is about to be evaluated; it holds, by the split at ==
C23_Witness ==
    /\ AtLine
    /\ Script = OperatorPriority
    /\ Line = <<"if", "b", "<", "a", "==", "b", "<", "a">>
    /\ evaluate_condition(variables, Rest(Line, 2)).b

(***************************************************************************)
(* C24                                                                     *)
(***************************************************************************)
\* a while loop is about to evaluate its guard, after Top.iteration
\* expansions of its body
C24_Case == Running /\ Top.t = "while"

C24_Guard == evaluate_condition(variables, Top.condition)

\* in the generated scripts the body counts n down, once for each "set n
\* $n - 1" of it: the store that the guard sees is the current one
C24_State ==
    /\ (C24_Case /\ Script \in Generated /\ "n" \in DOMAIN Top.pre) =>
          variables["n"] =
              <<ToString(NumOf[Top.pre["n"][1]] - Top.iteration * Count(Top.block, SetN))>>
    /\ (pc = "done" /\ Script = WhileFalse) => result = << <<"say", "end", "0">> >>

\* the guard decides, against the current store, between one more
\* expansion of the body and the end of the loop; the expansions are
\* counted from zero, one by one
C24_Step ==
    /\ (C24_Case /\ ~C24_Guard.exc) =>
          IF C24_Guard.b /\ Top.iteration < max_iterations
          THEN /\ stack' = Append(stack, BlockFrame(Top.block, Top.depth + 1))
               /\ variables' = variables
          ELSE /\ Len(stack') = Len(stack) - 1
               /\ stack'[Len(stack')].res = Extend(Below.res, Top.result)
               /\ stack'[Len(stack')].i = Top.next
    /\ (AtLine /\ LineKind(Line) = "while") =>
          /\ Len(stack') = Len(stack) + 1
          /\ stack'[Len(stack')].t = "while"
          /\ stack'[Len(stack')].iteration = 0
          /\ stack'[Len(stack')].result = << >>
    /\ (Returning /\ Len(stack) >= 2 /\ Below.t = "while") =>
          /\ Len(stack') = Len(stack) - 1
          /\ stack'[Len(stack')].iteration = Below.iteration + 1
          /\ stack'[Len(stack')].result = Extend(Below.result, Returned)

\* C24: the guard of a while is evaluated against the current store
\* before every expansion of the body: the body is expanded once more
\* where the guard holds in the store that the expansions so far have
\* left (and the ceiling is not reached) and the loop ends where it does
\* not, so that the number of expansions is the smallest k with the guard
\* false after k of them, and zero for a guard that is false on entry.
C24_GuardReevaluated == [](C24_State) /\ [][C24_Step]_vars

\* n was 2 at the entry; after two expansions it is 0 and the guard fails
C24_Witness ==
    /\ C24_Case
    /\ Top.iteration = 2
    /\ "n" \in DOMAIN Top.pre
    /\ Top.pre["n"] = <<"2">>
    /\ variables["n"] = <<"0">>
    /\ ~C24_Guard.exc
    /\ ~C24_Guard.b

(***************************************************************************)
(* C25                                                                     *)
(***************************************************************************)
\* the closer of a construct
C25_CloserOf(line) == "end" \o Lower(line[1])

C25_Opener(line) == LineKind(line) \in {"for", "while", "if"}

C25_Closer(line) == Len(line) = 1 /\ Lower(line[1]) \in {"endfor", "endwhile", "endif"}

\* how many constructs, of any kind, are open at line j inside the
\* construct that line i opens
C25_Depth(ls, i, j) ==
    Cardinality({m \in (i + 1)..(j - 1) : C25_Opener(ls[m])})
        - Cardinality({m \in (i + 1)..(j - 1) : C25_Closer(ls[m])})

\* the closers that balance the opener at line i; the first is its own
C25_Balanced(ls, i) == {j \in (i + 1)..Len(ls) : C25_Closer(ls[j]) /\ C25_Depth(ls, i, j) = 0}

C25_Match(ls, i) == CHOOSE j \in C25_Balanced(ls, i) : \A r \in C25_Balanced(ls, i) : j <= r

C25_Closed(ls, i) ==
    /\ C25_Balanced(ls, i) # {}
    /\ IsBare(ls[C25_Match(ls, i)], C25_CloserOf(ls[i]))

\* the construct at line i is closed, and so is every construct inside it
C25_WellNested(ls, i) ==
    /\ C25_Closed(ls, i)
    /\ \A m \in (i + 1)..(C25_Match(ls, i) - 1) :
          C25_Opener(ls[m]) => C25_Closed(ls, m) /\ C25_Match(ls, m) < C25_Match(ls, i)

\* the else of the if at line i: the one that is inside no inner construct
C25_Else(ls, i) ==
    {j \in (i + 1)..(C25_Match(ls, i) - 1) : IsBare(ls[j], "else") /\ C25_Depth(ls, i, j) = 0}

C25_Case == AtLine /\ C25_Opener(Line) /\ C25_WellNested(Top.ls, Top.i)

\* C25: in a well-nested script the block of a for or a while is the
\* lines up to its own closer, with complete for, while and if blocks in
\* it, and the branches of an if are divided by its own else and ended by
\* its own endif, not by those of an if inside it.
C25_BlocksRespectNesting ==
    C25_Case =>
        LET e == C25_Match(Top.ls, Top.i)
        IN  IF LineKind(Line) = "if"
            THEN LET sc == IfScan(Top.ls, Top.i + 1, 0, FALSE, << >>, << >>)
                     el == C25_Else(Top.ls, Top.i)
                 IN  /\ sc.idx = e
                     /\ Cardinality(el) <= 1
                     /\ el = {} =>
                           /\ sc.if_lines = SubSeq(Top.ls, Top.i + 1, e - 1)
                           /\ sc.else_lines = << >>
                     /\ \A j \in el :
                           /\ sc.if_lines = SubSeq(Top.ls, Top.i + 1, j - 1)
                           /\ sc.else_lines = SubSeq(Top.ls, j + 1, e - 1)
            ELSE LET blk == find_block_end(Top.ls, Top.i + 1, C25_CloserOf(Line))
                 IN  /\ blk.idx = e
                     /\ blk.block = SubSeq(Top.ls, Top.i + 1, e - 1)

\* an if with an else, and in one of its branches a complete if with an
\* else
C25_Witness ==
    /\ C25_Case
    /\ LineKind(Line) = "if"
    /\ C25_Else(Top.ls, Top.i) # {}
    /\ \E m \in (Top.i + 1)..(C25_Match(Top.ls, Top.i) - 1) :
          /\ LineKind(Top.ls[m]) = "if"
          /\ C25_Else(Top.ls, m) # {}

(***************************************************************************)
(* C26                                                                     *)
(***************************************************************************)
\* the line is an include of a file that exists
C26_Includes(line) == StartsWith(line, "include") /\ Len(line) = 2 /\ line[2] \in DOMAIN fs

\* the script includes another file, and that one a third
C26_Case ==
    /\ pc = "done"
    /\ \E j \in 1..Len(Script) :
          /\ C26_Includes(Script[j])
          /\ Script[j][2] # TopFile
          /\ \E m \in 1..Len(fs[Script[j][2]]) :
                /\ C26_Includes(fs[Script[j][2]][m])
                /\ fs[Script[j][2]][m][2] \notin {TopFile, Script[j][2]}

\* C26: where a file A includes a file B that holds an include of a file
\* C, the lines that A gets are those of B with the include replaced by
\* the lines of C: the include line of B is not among them.
C26_IncludeRecursive ==
    C26_Case => \A j \in 1..Len(result) : ~C26_Includes(result[j])

(***************************************************************************)
(* C27                                                                     *)
(***************************************************************************)
\* the calls of execute_command so far are those of the commands 1, 2, ...
\* in this order, and only the last can be one that raised; the
\* controller is as connect() left it until disconnect() is called
C27_State ==
    /\ \A j \in 1..Len(executed) : executed[j].k = j
    /\ \A j \in 1..(Len(executed) - 1) : executed[j].ret \in {"True", "False"}
    /\ pc = "reconnect" <=> (executed # << >> /\ executed[Len(executed)].ret = "pending")

C27_Step ==
    \* one call at a time, of the next command; False does not end the loop
    /\ (pc = "exec" /\ executed' # executed) =>
          \E ret \in {"True", "False", "raised", "pending"} :
              /\ executed' = Append(executed, [k |-> Len(executed) + 1, ret |-> ret])
              /\ pc' = CASE ret = "raised" -> "finally"
                         [] ret = "pending" -> "reconnect"
                         [] OTHER -> "exec"
    \* the call of the command connect returns, True or False, to the loop
    /\ (pc = "reconnect" /\ pc' = "exec") =>
          /\ Len(executed') = Len(executed)
          /\ executed'[Len(executed)].ret \in {"True", "False"}
    \* the loop is left for the finally clause only, and that is entered once
    /\ (pc = "exec" /\ pc' # "exec") => pc' \in {"finally", "reconnect"}
    /\ pc = "reconnect" => pc' \in {"reconnect", "exec", "finally"}
    /\ (pc' = "finally" /\ pc # "finally") => pc \in {"exec", "reconnect"}
    \* disconnect() is called from the finally clause and nowhere else,
    \* after the last call of execute_command, and it returns once
    /\ pc = "finally" => pc' \in {"finally", "join", "stop"}
    /\ (pc' \in {"join", "stop"} /\ pc \notin {"join", "stop"}) => pc = "finally"
    /\ pc = "join" => pc' \in {"join", "stop"}
    /\ pc = "stop" => pc' \in {"stop", "exit"}
    /\ pc \in {"finally", "join", "stop"} => executed' = executed
    /\ (pc = "stop" /\ pc' = "exit") => cli' = "None" /\ ~connected' /\ rc' = 0
    /\ pc # "exit"

\* C27: once connected main calls execute_command for the parsed commands
\* in the order of the stream, one at a time; a command that returns
\* False is followed by the next one; and disconnect() is called once,
\* after the last call, whether the loop has run through, a command has
\* raised or the run was interrupted.
C27_DispatchInOrder == [](C27_State) /\ [][C27_Step]_vars

\* the second of three commands has returned False, the third was
\* executed, and disconnect() has returned
C27_Witness ==
    /\ pc = "exit"
    /\ rc = 0
    /\ Len(commands) = 3
    /\ Len(executed) = 3
    /\ executed[2].ret = "False"
    /\ executed[3].ret = "True"
    /\ cli = "None"

(***************************************************************************)
(* C28                                                                     *)
(***************************************************************************)
\* the call of connect() made by the command connect has returned False
C28_ReturnedFalse ==
    /\ pc = "exec"
    /\ executed # << >>
    /\ commands[executed[Len(executed)].k] # None
    /\ commands[executed[Len(executed)].k].cmd = "connect"
    /\ executed[Len(executed)].ret = "False"

C28_State ==
    /\ connected => cli # "None"
    /\ attempt <= retries
    \* connect() has returned False to the constructor or to execute_command
    /\ (pc = "exit" /\ rc = 1 /\ commands # << >> /\ executed = << >>) => ~connected
    /\ C28_ReturnedFalse => ~connected

C28_Step ==
    \* connected becomes True in an attempt whose validation passed only
    /\ (~connected /\ connected') =>
          /\ pc \in {"connect", "reconnect"}
          /\ attempt < retries
          /\ cli' = "Client"
    \* every attempt counts until connect() returns
    /\ attempt' \in {attempt, attempt + 1, 0}
    /\ (attempt' = 0 /\ attempt # 0) => (pc \in {"connect", "reconnect"} /\ pc' # pc)
    /\ (cli' # cli /\ pc \in {"connect", "reconnect"} /\ pc' = pc) => attempt' = attempt + 1

\* C28: connected implies that there is a client; connect() makes at most
\* retries attempts, sets connected only in an attempt whose validation has
\* passed, and connected is False whenever connect() has returned False.
C28_ConnectedOnlyValidated == [](C28_State) /\ [][C28_Step]_vars

(***************************************************************************)
(* C29                                                                     *)
(***************************************************************************)
\* the positional variables 1..n
C29_Own(n) == {ToString(j) : j \in 1..n}

\* the stores s and t agree on every variable outside keys
C29_Agree(s, t, keys) ==
    /\ DOMAIN s \ keys = DOMAIN t \ keys
    /\ \A m \in DOMAIN s \ keys : s[m] = t[m]

\* _handle_call expands the body of a subroutine that it has found
C29_Enters == AtLine /\ LineKind(Line) = "call" /\ Len(stack') = Len(stack) + 2

\* the body of a subroutine has returned to _handle_call
C29_Returns == Returning /\ Len(stack) >= 3 /\ Below.t = "call"

C29_Step ==
    /\ C29_Enters =>
          LET args == stack'[Len(stack) + 1].args
          IN  /\ C29_Agree(variables, variables', C29_Own(Len(args)))
              /\ \A j \in 1..Len(args) : variables'[ToString(j)] = <<args[j]>>
    /\ C29_Returns =>
          LET n == Len(Below.args)
          IN  /\ C29_Agree(variables, variables', C29_Own(n))
              /\ \A m \in C29_Own(n) :
                    /\ m \in DOMAIN variables' <=> m \in DOMAIN Below.old_args
                    /\ m \in DOMAIN variables' => variables'[m] = Below.old_args[m]

\* C29: a call with n arguments rebinds the positional variables 1..n and
\* leaves every other variable of the store as it is, and its return
\* restores 1..n only: in a subroutine called with n arguments from a
\* subroutine called with m > n arguments the positional variables
\* n+1..m still hold the arguments of the outer call.
C29_ArgsNotIsolated == [][C29_Step]_vars

\* g was called with one argument from f, which was called with two: g has
\* seen the second argument of f as its $2
C29_Witness ==
    /\ pc = "done"
    /\ Script = FewerArgs
    /\ result = << <<"say", "g", "b", "c">>, <<"say", "f", "a", "c">>,
                   <<"say", "end", "", "">> >>

(***************************************************************************)
(* C30                                                                     *)
(***************************************************************************)
\* the entry of the stream is the empty string: a line is its words
\* joined by blanks
C30_Empty(line) == line = << >> \/ line = <<"">>

\* C30: no entry of the expanded command stream is the empty string, and
\* no entry that main has parsed has given None.
C30_NeverNone ==
    /\ \A j \in 1..Len(result) : ~C30_Empty(result[j])
    /\ \A j \in 1..Len(commands) : commands[j] # None

====
